---- MODULE Spec2Model ----
(***************************************************************************)
(* deezer_metadata: a typed client of the Deezer metadata API.             *)
(*                                                                         *)
(* The module models                                                       *)
(*   - the JSON documents the client receives (as value trees whose        *)
(*     numbers keep their wire form: sign, decimal digits, fraction flag), *)
(*   - the decoders #[derive(Deserialize)] generates from the structs of   *)
(*     src/api/objects/*.rs, and the hand-written list decoders            *)
(*     deserialize_map, deserialize_chart and deserialize_offers,          *)
(*   - the fetch operations: X::get, Api::get_x and the get_full methods   *)
(*     of the shortened records.                                           *)
(*                                                                         *)
(* Rust integers keep their width.  A u32/u64 is a little-endian sequence  *)
(* of 16-bit limbs (2 resp. 4 of them), an i32 is an integer in            *)
(* -2^31 .. 2^31-1.                                                        *)
(***************************************************************************)
EXTENDS Integers, Sequences, FiniteSets, TLC

(***************************************************************************)
(* Results.  A decoder returns Ok(v) or Err, or it panics (an unwrap on a  *)
(* None/Err).  `out` counts the lines the call printed on standard output. *)
(***************************************************************************)
Ok(v, n) == [st |-> "ok", v |-> v, out |-> n]
Err(n) == [st |-> "err", out |-> n]
Panic(n) == [st |-> "panic", out |-> n]

\* Option<T>
None == [some |-> FALSE]
Some(v) == [some |-> TRUE, v |-> v]

(***************************************************************************)
(* TLC keeps [x \in S |-> e] as a rule and evaluates e at every application; *)
(* Tuple and Function give the same function with its values computed once. *)
(***************************************************************************)
Tuple(f) == f \o <<>>
Function(f) == f @@ <<>>

(***************************************************************************)
(* JSON values.                                                            *)
(***************************************************************************)
JNull == [t |-> "null"]
JBool(b) == [t |-> "bool", v |-> b]
JStr(s) == [t |-> "str", v |-> s]
JArr(s) == [t |-> "arr", v |-> s]
\* an object is the sequence of its members <<key, value>>, in document order
JObj(members) == [t |-> "obj", v |-> members]
\* a number as written: optional minus sign, decimal digits without leading
\* zero, and whether a fraction or an exponent follows
JNumber(neg, digits, frac) == [t |-> "num", neg |-> neg, digits |-> digits, frac |-> frac]

LimbBase == 2^16

RECURSIVE DigitsOf(_)
\* the decimal digits of a natural number below 2^31 (to write test documents)
DigitsOf(n) == IF n < 10 THEN <<n>> ELSE DigitsOf(n \div 10) \o <<n % 10>>

JNum(n) == IF n < 0 THEN JNumber(TRUE, DigitsOf(-n), FALSE) ELSE JNumber(FALSE, DigitsOf(n), FALSE)

\* the u32 with value n, for n below 2^31
U32(n) == <<n % LimbBase, n \div LimbBase>>

Zeros(nlimbs) == [i \in 1..nlimbs |-> 0]

RECURSIVE MulAdd10(_, _)
\* limbs * 10 + c, limb by limb from the least significant; c of the result is
\* the carry out of the most significant limb
MulAdd10(limbs, c) ==
  IF limbs = <<>> THEN [l |-> <<>>, c |-> c]
  ELSE LET x == Head(limbs) * 10 + c
           rest == MulAdd10(Tail(limbs), x \div LimbBase)
       IN [l |-> <<x % LimbBase>> \o rest.l, c |-> rest.c]

RECURSIVE ParseDigits(_, _, _)
\* the value of the digit string as an unsigned integer of Len(acc) limbs;
\* ok is FALSE when it does not fit
ParseDigits(digits, i, acc) ==
  IF i > Len(digits) THEN [ok |-> TRUE, l |-> acc]
  ELSE LET r == MulAdd10(acc, digits[i])
       IN IF r.c > 0 THEN [ok |-> FALSE] ELSE ParseDigits(digits, i + 1, r.l)

\* the number cast to the type (`as`): the low limbs of its value
visit_unsigned_wrapping(j, nlimbs) ==
  IF j.t # "num" \/ j.frac THEN Err(0)
  ELSE LET p == ParseDigits(j.digits, 1, Zeros(nlimbs + 4))
       IN IF p.ok THEN Ok(SubSeq(p.l, 1, nlimbs), 0) ELSE Err(0)

\* an unsigned field declared with the signed type of the same width: a value
\* with the top bit set is out of range
visit_unsigned_as_signed(j, nlimbs) ==
  IF j.t # "num" \/ j.frac \/ j.neg THEN Err(0)
  ELSE LET p == ParseDigits(j.digits, 1, Zeros(nlimbs))
       IN IF p.ok /\ p.l[nlimbs] < 2^15 THEN Ok(p.l, 0) ELSE Err(0)

\* serde_json hands an integer literal to the visitor as u64 or i64 and a
\* literal with a fraction, an exponent, or the text "-0" as f64; the integer
\* visitors accept only an integer in the range of their type.
visit_unsigned(j, nlimbs) ==
  IF j.t # "num" \/ j.frac \/ j.neg THEN Err(0)
  ELSE LET p == ParseDigits(j.digits, 1, Zeros(nlimbs))
       IN IF p.ok THEN Ok(p.l, 0) ELSE Err(0)

visit_i32(j) ==
  IF j.t # "num" \/ j.frac \/ (j.neg /\ j.digits = <<0>>) THEN Err(0)
  ELSE LET p == ParseDigits(j.digits, 1, Zeros(2))
       IN IF ~p.ok THEN Err(0)
          ELSE LET lo == p.l[1]
                   hi == p.l[2]
               IN IF hi < 2^15 THEN Ok((IF j.neg THEN -1 ELSE 1) * (hi * LimbBase + lo), 0)
                  ELSE IF j.neg /\ hi = 2^15 /\ lo = 0 THEN Ok(-2147483647 - 1, 0)
                  ELSE Err(0)

\* f32 accepts every JSON number; the value is kept in its wire form
visit_f32(j) == IF j.t # "num" THEN Err(0) ELSE Ok([f32 |-> j], 0)

visit_string(j) == IF j.t # "str" THEN Err(0) ELSE Ok(j.v, 0)

visit_bool(j) == IF j.t # "bool" THEN Err(0) ELSE Ok(j.v, 0)

RECURSIVE DivMod10(_, _)
\* limbs \div 10 and limbs % 10, from the most significant limb down; r is the
\* remainder carried in
DivMod10(limbs, r) ==
  IF limbs = <<>> THEN [q |-> <<>>, r |-> r]
  ELSE LET n == Len(limbs)
           cur == r * LimbBase + limbs[n]
           rest == DivMod10(SubSeq(limbs, 1, n - 1), cur % 10)
       IN [q |-> rest.q \o <<cur \div 10>>, r |-> rest.r]

DigitChar(d) == <<"0", "1", "2", "3", "4", "5", "6", "7", "8", "9">>[d + 1]

RECURSIVE to_string_u16(_)
\* to_string of the id cast to u16: the rendering of its low limb
to_string_u16(id) ==
  LET d == DivMod10(<<id[1]>>, 0)
  IN IF d.q = <<0>> THEN DigitChar(d.r) ELSE to_string_u16(d.q) \o DigitChar(d.r)

RECURSIVE to_string(_)
\* u32::to_string: the decimal rendering, no sign, no leading zero
to_string(id) ==
  LET d == DivMod10(id, 0)
  IN IF d.q = Zeros(Len(id)) THEN DigitChar(d.r) ELSE to_string(d.q) \o DigitChar(d.r)

(***************************************************************************)
(* The records of src/api/objects.  F(name, key, wrap, base, of, dflt,     *)
(* with) is one field: its Rust name, its JSON key (#[serde(rename)]),     *)
(* its type, whether it has #[serde(default)], and the function            *)
(* #[serde(deserialize_with)] names, "" for none.                          *)
(***************************************************************************)
F(name, key, wrap, base, of, dflt, with) ==
  [name |-> name, key |-> key, wrap |-> wrap, base |-> base, of |-> of, dflt |-> dflt, with |-> with]

\* struct Album (album.rs): one entry per field, in declaration order.
Album_fields ==
  <<
    F("id", "id", "", "u32", "", FALSE, ""),
    F("title", "title", "", "String", "", FALSE, ""),
    F("upc", "upc", "", "String", "", FALSE, ""),
    F("link", "link", "", "String", "", FALSE, ""),
    F("share_link", "share", "", "String", "", FALSE, ""),
    F("cover", "cover", "", "String", "", FALSE, ""),
    F("cover_small", "cover_small", "", "String", "", FALSE, ""),
    F("cover_medium", "cover_medium", "", "String", "", FALSE, ""),
    F("cover_big", "cover_big", "", "String", "", FALSE, ""),
    F("cover_xl", "cover_xl", "", "String", "", FALSE, ""),
    F("genre_id", "genre_id", "Option", "i32", "", FALSE, ""),
    F("genres", "genres", "Vec", "struct", "album::AlbumGenre", FALSE, "deserialize_map"),
    F("label", "label", "", "String", "", FALSE, ""),
    F("nb_tracks", "nb_tracks", "", "u32", "", FALSE, ""),
    F("duration_in_seconds", "duration", "", "u32", "", FALSE, ""),
    F("fans", "fans", "", "u32", "", FALSE, ""),
    F("rating", "rating", "", "u32", "", FALSE, ""),
    F("release_date", "release_date", "", "String", "", FALSE, ""),
    F("record_type", "record_type", "", "String", "", FALSE, ""),
    F("available", "available", "", "bool", "", FALSE, ""),
    F("alternative_album", "alternative", "Option", "struct", "album::Album", TRUE, ""),
    F("tracklist_api_url", "tracklist", "", "String", "", FALSE, ""),
    F("has_explicit_lyrics", "explicit_lyrics", "", "bool", "", FALSE, ""),
    F("contributors", "contributors", "Vec", "struct", "album::ContributorArtist", FALSE, ""),
    F("artist", "artist", "", "struct", "album::AlbumArtist", FALSE, ""),
    F("tracks", "tracks", "Vec", "struct", "album::AlbumTrack", FALSE, "deserialize_map")
  >>

\* struct ContributorArtist (album.rs): one entry per field, in declaration order.
album_ContributorArtist_fields ==
  <<
    F("id", "id", "", "u32", "", FALSE, ""),
    F("name", "name", "", "String", "", FALSE, ""),
    F("link", "link", "", "String", "", FALSE, ""),
    F("share_link", "share", "", "String", "", FALSE, ""),
    F("picture_small", "picture_small", "", "String", "", FALSE, ""),
    F("picture_medium", "picture_medium", "", "String", "", FALSE, ""),
    F("picture_big", "picture_big", "", "String", "", FALSE, ""),
    F("picture_xl", "picture_xl", "", "String", "", FALSE, ""),
    F("has_radio", "radio", "", "bool", "", FALSE, ""),
    F("tracklist", "tracklist", "", "String", "", FALSE, "")
  >>

\* struct AlbumArtist (album.rs): one entry per field, in declaration order.
album_AlbumArtist_fields ==
  <<
    F("id", "id", "", "u32", "", FALSE, ""),
    F("name", "name", "", "String", "", FALSE, ""),
    F("picture", "picture", "", "String", "", FALSE, ""),
    F("picture_small", "picture_small", "", "String", "", FALSE, ""),
    F("picture_medium", "picture_medium", "", "String", "", FALSE, ""),
    F("picture_big", "picture_big", "", "String", "", FALSE, ""),
    F("picture_xl", "picture_xl", "", "String", "", FALSE, "")
  >>

\* struct AlbumTrackArtist (album.rs): one entry per field, in declaration order.
album_AlbumTrackArtist_fields ==
  <<
    F("id", "id", "", "u32", "", FALSE, ""),
    F("name", "name", "", "String", "", FALSE, ""),
    F("tracklist", "tracklist", "", "String", "", FALSE, "")
  >>

\* struct AlbumTrack (album.rs): one entry per field, in declaration order.
album_AlbumTrack_fields ==
  <<
    F("id", "id", "", "u32", "", FALSE, ""),
    F("readable", "readable", "", "bool", "", FALSE, ""),
    F("title", "title", "", "String", "", FALSE, ""),
    F("title_short", "title_short", "", "String", "", FALSE, ""),
    F("title_version", "title_version", "", "String", "", FALSE, ""),
    F("link", "link", "", "String", "", FALSE, ""),
    F("duration_in_seconds", "duration", "", "u32", "", FALSE, ""),
    F("rank", "rank", "", "u32", "", FALSE, ""),
    F("explicit_lyrics", "explicit_lyrics", "", "bool", "", FALSE, ""),
    F("preview", "preview", "", "String", "", FALSE, ""),
    F("artist", "artist", "", "struct", "album::AlbumTrackArtist", FALSE, "")
  >>

\* struct AlbumGenre declared without its id
album_AlbumGenre_fields_without_id ==
  <<
    F("name", "name", "", "String", "", FALSE, ""),
    F("picture", "picture", "", "String", "", FALSE, "")
  >>

\* struct AlbumGenre (album.rs): one entry per field, in declaration order.
album_AlbumGenre_fields ==
  <<
    F("id", "id", "", "u32", "", FALSE, ""),
    F("name", "name", "", "String", "", FALSE, ""),
    F("picture", "picture", "", "String", "", FALSE, "")
  >>

\* struct Artist (artist.rs): one entry per field, in declaration order.
Artist_fields ==
  <<
    F("id", "id", "", "u32", "", FALSE, ""),
    F("name", "name", "", "String", "", FALSE, ""),
    F("link", "link", "", "String", "", FALSE, ""),
    F("share_link", "share", "", "String", "", FALSE, ""),
    F("picture", "picture", "", "String", "", FALSE, ""),
    F("picture_small", "picture_small", "", "String", "", FALSE, ""),
    F("picture_medium", "picture_medium", "", "String", "", FALSE, ""),
    F("picture_big", "picture_big", "", "String", "", FALSE, ""),
    F("picture_xl", "picture_xl", "", "String", "", FALSE, ""),
    F("nb_album", "nb_album", "", "u32", "", FALSE, ""),
    F("nb_fan", "nb_fan", "", "u32", "", FALSE, ""),
    F("has_radio", "radio", "", "bool", "", FALSE, ""),
    F("tracklist", "tracklist", "", "String", "", FALSE, "")
  >>

\* struct Chart (chart.rs): one entry per field, in declaration order.
Chart_fields ==
  <<
    F("tracks", "tracks", "Vec", "struct", "chart::ChartTrack", FALSE, "deserialize_chart"),
    F("albums", "albums", "Vec", "struct", "chart::ChartAlbum", FALSE, "deserialize_chart"),
    F("artists", "artists", "Vec", "struct", "chart::ChartArtist", FALSE, "deserialize_chart"),
    F("playlists", "playlists", "Vec", "struct", "chart::ChartPlaylist", FALSE, "deserialize_chart")
  >>

\* struct ChartTrack (chart.rs): one entry per field, in declaration order.
chart_ChartTrack_fields ==
  <<
    F("id", "id", "", "u32", "", FALSE, ""),
    F("title", "title", "", "String", "", FALSE, ""),
    F("title_short", "title_short", "", "String", "", FALSE, ""),
    F("title_version", "title_version", "", "String", "", FALSE, ""),
    F("link", "link", "", "String", "", FALSE, ""),
    F("duration_in_seconds", "duration", "", "u32", "", FALSE, ""),
    F("rank", "rank", "", "u32", "", FALSE, ""),
    F("has_explicit_lyrics", "explicit_lyrics", "", "bool", "", FALSE, ""),
    F("preview_url", "preview_url", "Option", "String", "", TRUE, ""),
    F("position", "position", "", "u32", "", FALSE, ""),
    F("artist", "artist", "", "struct", "chart::ChartTrackArtist", FALSE, ""),
    F("album", "album", "", "struct", "chart::ChartTrackAlbum", FALSE, "")
  >>

\* struct ChartTrackArtist (chart.rs): one entry per field, in declaration order.
chart_ChartTrackArtist_fields ==
  <<
    F("id", "id", "", "u32", "", FALSE, ""),
    F("name", "name", "", "String", "", FALSE, ""),
    F("link", "link", "", "String", "", FALSE, ""),
    F("picture", "picture", "", "String", "", FALSE, ""),
    F("picture_small", "picture_small", "", "String", "", FALSE, ""),
    F("picture_medium", "picture_medium", "", "String", "", FALSE, ""),
    F("picture_big", "picture_big", "", "String", "", FALSE, ""),
    F("picture_xl", "picture_xl", "", "String", "", FALSE, ""),
    F("has_radio", "radio", "", "bool", "", FALSE, "")
  >>

\* struct ChartTrackAlbum (chart.rs): one entry per field, in declaration order.
chart_ChartTrackAlbum_fields ==
  <<
    F("id", "id", "", "u32", "", FALSE, ""),
    F("title", "title", "", "String", "", FALSE, ""),
    F("cover", "cover", "", "String", "", FALSE, ""),
    F("cover_small", "cover_small", "", "String", "", FALSE, ""),
    F("cover_medium", "cover_medium", "", "String", "", FALSE, ""),
    F("cover_big", "cover_big", "", "String", "", FALSE, ""),
    F("cover_xl", "cover_xl", "", "String", "", FALSE, "")
  >>

\* struct ChartAlbum (chart.rs): one entry per field, in declaration order.
chart_ChartAlbum_fields ==
  <<
    F("id", "id", "", "u32", "", FALSE, ""),
    F("title", "title", "", "String", "", FALSE, ""),
    F("cover", "cover", "", "String", "", FALSE, ""),
    F("cover_small", "cover_small", "", "String", "", FALSE, ""),
    F("cover_medium", "cover_medium", "", "String", "", FALSE, ""),
    F("cover_big", "cover_big", "", "String", "", FALSE, ""),
    F("cover_xl", "cover_xl", "", "String", "", FALSE, ""),
    F("record_type", "record_type", "", "String", "", FALSE, ""),
    F("has_explicit_lyrics", "explicit_lyrics", "", "bool", "", FALSE, ""),
    F("position", "position", "", "u32", "", FALSE, ""),
    F("artist", "artist", "", "struct", "chart::ChartAlbumArtist", FALSE, "")
  >>

\* struct ChartAlbumArtist (chart.rs): one entry per field, in declaration order.
chart_ChartAlbumArtist_fields ==
  <<
    F("id", "id", "", "u32", "", FALSE, ""),
    F("name", "name", "", "String", "", FALSE, ""),
    F("link", "link", "", "String", "", FALSE, ""),
    F("picture", "picture", "", "String", "", FALSE, ""),
    F("picture_small", "picture_small", "", "String", "", FALSE, ""),
    F("picture_medium", "picture_medium", "", "String", "", FALSE, ""),
    F("picture_big", "picture_big", "", "String", "", FALSE, ""),
    F("picture_xl", "picture_xl", "", "String", "", FALSE, ""),
    F("has_radio", "radio", "", "bool", "", FALSE, "")
  >>

\* struct ChartArtist (chart.rs): one entry per field, in declaration order.
chart_ChartArtist_fields ==
  <<
    F("id", "id", "", "u32", "", FALSE, ""),
    F("name", "name", "", "String", "", FALSE, ""),
    F("link", "link", "", "String", "", FALSE, ""),
    F("picture", "picture", "", "String", "", FALSE, ""),
    F("picture_small", "picture_small", "", "String", "", FALSE, ""),
    F("picture_medium", "picture_medium", "", "String", "", FALSE, ""),
    F("picture_big", "picture_big", "", "String", "", FALSE, ""),
    F("picture_xl", "picture_xl", "", "String", "", FALSE, ""),
    F("has_radio", "radio", "", "bool", "", FALSE, ""),
    F("position", "position", "", "u32", "", FALSE, "")
  >>

\* struct ChartPlaylist (chart.rs): one entry per field, in declaration order.
chart_ChartPlaylist_fields ==
  <<
    F("id", "id", "", "u32", "", FALSE, ""),
    F("title", "title", "", "String", "", FALSE, ""),
    F("is_public", "public", "", "bool", "", FALSE, ""),
    F("link", "link", "", "String", "", FALSE, ""),
    F("picture", "picture", "", "String", "", FALSE, ""),
    F("picture_small", "picture_small", "", "String", "", FALSE, ""),
    F("picture_medium", "picture_medium", "", "String", "", FALSE, ""),
    F("picture_big", "picture_big", "", "String", "", FALSE, ""),
    F("picture_xl", "picture_xl", "", "String", "", FALSE, ""),
    F("position", "position", "", "u32", "", TRUE, ""),
    F("user", "user", "", "struct", "chart::ChartPlaylistUser", FALSE, "")
  >>

\* struct ChartPlaylistUser (chart.rs): one entry per field, in declaration order.
chart_ChartPlaylistUser_fields ==
  <<
    F("id", "id", "", "u32", "", FALSE, ""),
    F("name", "name", "", "String", "", FALSE, "")
  >>

\* struct Comment (comment.rs): one entry per field, in declaration order.
Comment_fields ==
  <<
    F("id", "id", "", "u32", "", FALSE, ""),
    F("text", "text", "", "String", "", FALSE, ""),
    F("date", "date", "", "u32", "", FALSE, ""),
    F("object", "object", "", "struct", "comment::CommentParent", FALSE, ""),
    F("author", "author", "", "struct", "comment::CommentAuthor", FALSE, "")
  >>

\* struct CommentAuthor (comment.rs): one entry per field, in declaration order.
comment_CommentAuthor_fields ==
  <<
    F("id", "id", "", "u32", "", FALSE, ""),
    F("name", "name", "", "String", "", FALSE, ""),
    F("link", "link", "", "String", "", FALSE, ""),
    F("picture", "picture", "", "String", "", FALSE, ""),
    F("picture_small", "picture_small", "", "String", "", FALSE, ""),
    F("picture_medium", "picture_medium", "", "String", "", FALSE, ""),
    F("picture_big", "picture_big", "", "String", "", FALSE, ""),
    F("picture_xl", "picture_xl", "", "String", "", FALSE, "")
  >>

\* struct Editorial (editorial.rs): one entry per field, in declaration order.
Editorial_fields ==
  <<
    F("id", "id", "", "u32", "", FALSE, ""),
    F("name", "name", "", "String", "", FALSE, ""),
    F("picture", "picture", "", "String", "", FALSE, ""),
    F("picture_small", "picture_small", "", "String", "", FALSE, ""),
    F("picture_medium", "picture_medium", "", "String", "", FALSE, ""),
    F("picture_big", "picture_big", "", "String", "", FALSE, ""),
    F("picture_xl", "picture_xl", "", "String", "", FALSE, "")
  >>

\* struct Genre (genre.rs): one entry per field, in declaration order.
Genre_fields ==
  <<
    F("id", "id", "", "u32", "", FALSE, ""),
    F("name", "name", "", "String", "", FALSE, ""),
    F("picture", "picture", "", "String", "", FALSE, ""),
    F("picture_small", "picture_small", "", "String", "", FALSE, ""),
    F("picture_medium", "picture_medium", "", "String", "", FALSE, ""),
    F("picture_big", "picture_big", "", "String", "", FALSE, ""),
    F("picture_xl", "picture_xl", "", "String", "", FALSE, "")
  >>

\* struct Info (info.rs): one entry per field, in declaration order.
Info_fields ==
  <<
    F("country_iso", "country_iso", "", "String", "", FALSE, ""),
    F("country", "country", "", "String", "", FALSE, ""),
    F("open", "open", "", "bool", "", FALSE, ""),
    F("offers", "offers", "Vec", "struct", "info::Offer", FALSE, "deserialize_offers")
  >>

\* struct Offer (info.rs): one entry per field, in declaration order.
info_Offer_fields ==
  <<
    F("id", "id", "", "u32", "", FALSE, ""),
    F("name", "name", "", "String", "", FALSE, ""),
    F("amount", "amount", "", "String", "", FALSE, ""),
    F("currency", "currency", "", "String", "", FALSE, ""),
    F("displayed_amount", "displayed_amount", "", "String", "", FALSE, ""),
    F("tc", "tc", "", "String", "", FALSE, ""),
    F("tc_html", "tc_html", "", "String", "", FALSE, ""),
    F("tc_txt", "tc_txt", "", "String", "", FALSE, ""),
    F("try_and_buy", "try_and_buy", "", "u32", "", FALSE, "")
  >>

\* struct Options (options.rs): one entry per field, in declaration order.
Options_fields ==
  <<
    F("streaming", "streaming", "", "bool", "", FALSE, ""),
    F("streaming_duration", "streaming_duration", "", "u32", "", FALSE, ""),
    F("offline", "offline", "", "bool", "", FALSE, ""),
    F("hq", "hq", "", "bool", "", FALSE, ""),
    F("ads_display", "ads_display", "", "bool", "", FALSE, ""),
    F("ads_audio", "ads_audio", "", "bool", "", FALSE, ""),
    F("has_too_many_devices", "too_many_devices", "", "bool", "", FALSE, ""),
    F("can_subscribe", "can_subscribe", "", "bool", "", FALSE, ""),
    F("radio_skips", "radio_skips", "", "u32", "", FALSE, ""),
    F("lossless", "lossless", "", "bool", "", FALSE, ""),
    F("preview", "preview", "", "bool", "", FALSE, ""),
    F("radio", "radio", "", "bool", "", FALSE, "")
  >>

\* struct Playlist (playlist.rs): one entry per field, in declaration order.
Playlist_fields ==
  <<
    F("id", "id", "", "u32", "", FALSE, ""),
    F("title", "title", "", "String", "", FALSE, ""),
    F("description", "description", "", "String", "", FALSE, ""),
    F("duration_in_seconds", "duration", "", "u32", "", FALSE, ""),
    F("is_public", "public", "", "bool", "", FALSE, ""),
    F("is_loved_track", "is_loved_track", "", "bool", "", FALSE, ""),
    F("is_collaborative", "collaborative", "", "bool", "", FALSE, ""),
    F("rating", "rating", "Option", "u32", "", TRUE, ""),
    F("nb_tracks", "nb_tracks", "", "u32", "", FALSE, ""),
    F("unseen_track_count", "unseen_track_count", "Option", "u32", "", TRUE, ""),
    F("fans", "fans", "", "u32", "", FALSE, ""),
    F("link", "link", "", "String", "", FALSE, ""),
    F("share_link", "share", "", "String", "", FALSE, ""),
    F("picture", "picture", "", "String", "", FALSE, ""),
    F("picture_small", "picture_small", "", "String", "", FALSE, ""),
    F("picture_medium", "picture_medium", "", "String", "", FALSE, ""),
    F("picture_big", "picture_big", "", "String", "", FALSE, ""),
    F("picture_xl", "picture_xl", "", "String", "", FALSE, ""),
    F("checksum", "checksum", "", "String", "", FALSE, ""),
    F("creator", "creator", "", "struct", "playlist::PlaylistUser", FALSE, ""),
    F("tracks", "tracks", "Vec", "struct", "playlist::PlaylistTrack", FALSE, "deserialize_map")
  >>

\* struct PlaylistUser (playlist.rs): one entry per field, in declaration order.
playlist_PlaylistUser_fields ==
  <<
    F("id", "id", "", "u32", "", FALSE, ""),
    F("name", "name", "", "String", "", FALSE, "")
  >>

\* struct PlaylistTrack (playlist.rs): one entry per field, in declaration order.
playlist_PlaylistTrack_fields ==
  <<
    F("id", "id", "", "u32", "", FALSE, ""),
    F("readable", "readable", "", "bool", "", FALSE, ""),
    F("title", "title", "", "String", "", FALSE, ""),
    F("title_short", "title_short", "", "String", "", FALSE, ""),
    F("title_version", "title_version", "", "String", "", FALSE, ""),
    F("unseen", "unseen", "", "bool", "", TRUE, ""),
    F("link", "link", "", "String", "", FALSE, ""),
    F("duration_in_seconds", "duration", "", "u32", "", FALSE, ""),
    F("rank", "rank", "", "u32", "", FALSE, ""),
    F("has_explicit_lyrics", "explicit_lyrics", "", "bool", "", FALSE, ""),
    F("preview_url", "preview_url", "", "String", "", TRUE, ""),
    F("added_on", "time_add", "", "u64", "", FALSE, ""),
    F("artist", "artist", "", "struct", "playlist::PlaylistTrackArtist", FALSE, ""),
    F("album", "album", "", "struct", "playlist::PlaylistTrackAlbum", FALSE, "")
  >>

\* struct PlaylistTrackArtist (playlist.rs): one entry per field, in declaration order.
playlist_PlaylistTrackArtist_fields ==
  <<
    F("id", "id", "", "u32", "", FALSE, ""),
    F("name", "name", "", "String", "", FALSE, ""),
    F("link", "link", "", "String", "", FALSE, "")
  >>

\* struct PlaylistTrackAlbum (playlist.rs): one entry per field, in declaration order.
playlist_PlaylistTrackAlbum_fields ==
  <<
    F("id", "id", "", "u32", "", FALSE, ""),
    F("title", "title", "", "String", "", FALSE, ""),
    F("cover", "cover", "", "String", "", FALSE, ""),
    F("cover_small", "cover_small", "", "String", "", FALSE, ""),
    F("cover_medium", "cover_medium", "", "String", "", FALSE, ""),
    F("cover_big", "cover_big", "", "String", "", FALSE, ""),
    F("cover_xl", "cover_xl", "", "String", "", FALSE, "")
  >>

\* struct Radio (radio.rs): one entry per field, in declaration order.
Radio_fields ==
  <<
    F("id", "id", "", "u32", "", FALSE, ""),
    F("title", "title", "", "String", "", FALSE, ""),
    F("description", "description", "", "String", "", FALSE, ""),
    F("share_link", "share", "", "String", "", FALSE, ""),
    F("picture", "picture", "", "String", "", FALSE, ""),
    F("picture_small", "picture_small", "", "String", "", FALSE, ""),
    F("picture_medium", "picture_medium", "", "String", "", FALSE, ""),
    F("picture_big", "picture_big", "", "String", "", FALSE, ""),
    F("picture_xl", "picture_xl", "", "String", "", FALSE, ""),
    F("track_list", "tracklist", "", "String", "", FALSE, "")
  >>

\* struct Track (track.rs): one entry per field, in declaration order.
Track_fields ==
  <<
    F("id", "id", "", "u32", "", FALSE, ""),
    F("readable", "readable", "", "bool", "", FALSE, ""),
    F("title", "title", "", "String", "", FALSE, ""),
    F("title_short", "title_short", "", "String", "", FALSE, ""),
    F("title_version", "title_version", "", "String", "", FALSE, ""),
    F("unseen", "unseen", "Option", "bool", "", TRUE, ""),
    F("isrc", "isrc", "", "String", "", FALSE, ""),
    F("link", "link", "", "String", "", FALSE, ""),
    F("share_link", "share", "", "String", "", FALSE, ""),
    F("duration_in_seconds", "duration", "", "u32", "", FALSE, ""),
    F("track_position_in_album", "track_position", "", "u32", "", FALSE, ""),
    F("album_disk_number", "disk_number", "", "u32", "", FALSE, ""),
    F("rank", "rank", "", "u32", "", FALSE, ""),
    F("release_date", "release_date", "", "String", "", FALSE, ""),
    F("has_explicit_lyrics", "explicit_lyrics", "", "bool", "", FALSE, ""),
    F("preview_url", "preview_url", "Option", "String", "", TRUE, ""),
    F("bpm", "bpm", "", "f32", "", FALSE, ""),
    F("gain", "gain", "", "f32", "", FALSE, ""),
    F("available_countries", "available_countries", "Vec", "String", "", FALSE, ""),
    F("alternative_track_id", "alternative", "Option", "u32", "", TRUE, ""),
    F("contributors", "contributors", "Vec", "struct", "track::ContributorArtist", FALSE, ""),
    F("artist", "artist", "", "struct", "track::TrackArtist", FALSE, ""),
    F("album", "album", "", "struct", "track::TrackAlbum", FALSE, "")
  >>

\* struct ContributorArtist (track.rs): one entry per field, in declaration order.
track_ContributorArtist_fields ==
  <<
    F("id", "id", "", "u32", "", FALSE, ""),
    F("name", "name", "", "String", "", FALSE, ""),
    F("link", "link", "", "String", "", FALSE, ""),
    F("share_link", "share", "", "String", "", FALSE, ""),
    F("picture_small", "picture_small", "", "String", "", FALSE, ""),
    F("picture_medium", "picture_medium", "", "String", "", FALSE, ""),
    F("picture_big", "picture_big", "", "String", "", FALSE, ""),
    F("picture_xl", "picture_xl", "", "String", "", FALSE, ""),
    F("has_radio", "radio", "", "bool", "", FALSE, ""),
    F("tracklist", "tracklist", "", "String", "", FALSE, "")
  >>

\* struct TrackArtist (track.rs): one entry per field, in declaration order.
track_TrackArtist_fields ==
  <<
    F("id", "id", "", "u32", "", FALSE, ""),
    F("name", "name", "", "String", "", FALSE, ""),
    F("link", "link", "", "String", "", FALSE, ""),
    F("share_link", "share", "", "String", "", FALSE, ""),
    F("picture", "picture", "", "String", "", FALSE, ""),
    F("picture_small", "picture_small", "", "String", "", FALSE, ""),
    F("picture_medium", "picture_medium", "", "String", "", FALSE, ""),
    F("picture_big", "picture_big", "", "String", "", FALSE, ""),
    F("picture_xl", "picture_xl", "", "String", "", FALSE, ""),
    F("nb_album", "nb_album", "Option", "u32", "", TRUE, ""),
    F("nb_fan", "nb_fan", "Option", "u32", "", TRUE, ""),
    F("has_radio", "radio", "", "bool", "", FALSE, ""),
    F("tracklist", "tracklist", "", "String", "", FALSE, "")
  >>

\* struct TrackAlbum (track.rs): one entry per field, in declaration order.
track_TrackAlbum_fields ==
  <<
    F("id", "id", "", "u32", "", FALSE, ""),
    F("title", "title", "", "String", "", FALSE, ""),
    F("link", "link", "", "String", "", FALSE, ""),
    F("cover", "cover", "", "String", "", FALSE, ""),
    F("cover_small", "cover_small", "", "String", "", FALSE, ""),
    F("cover_medium", "cover_medium", "", "String", "", FALSE, ""),
    F("cover_big", "cover_big", "", "String", "", FALSE, ""),
    F("cover_xl", "cover_xl", "", "String", "", FALSE, ""),
    F("release_date", "release_date", "", "String", "", FALSE, "")
  >>

\* struct User (user.rs): one entry per field, in declaration order.
User_fields ==
  <<
    F("id", "id", "", "u32", "", FALSE, ""),
    F("name", "name", "", "String", "", FALSE, ""),
    F("last_name", "lastname", "", "String", "", TRUE, ""),
    F("first_name", "firstname", "", "String", "", TRUE, ""),
    F("email", "email", "", "String", "", TRUE, ""),
    F("status", "status", "", "u32", "", TRUE, ""),
    F("birthday", "birthday", "", "String", "", TRUE, ""),
    F("inscription_date", "inscription_date", "", "String", "", TRUE, ""),
    F("gender", "gender", "", "String", "", TRUE, ""),
    F("link", "link", "", "String", "", FALSE, ""),
    F("picture", "picture", "", "String", "", FALSE, ""),
    F("picture_small", "picture_small", "", "String", "", FALSE, ""),
    F("picture_medium", "picture_medium", "", "String", "", FALSE, ""),
    F("picture_big", "picture_big", "", "String", "", FALSE, ""),
    F("picture_xl", "picture_xl", "", "String", "", FALSE, ""),
    F("country", "country", "", "String", "", FALSE, ""),
    F("lang", "lang", "", "String", "", TRUE, ""),
    F("is_kid", "is_kid", "", "bool", "", TRUE, ""),
    F("track_list", "tracklist", "", "String", "", FALSE, "")
  >>

\* struct CommentParent (comment.rs): one entry per field, in declaration order.
comment_CommentParent_fields ==
  <<
    F("id", "id", "", "String", "", FALSE, ""),
    F("object_type", "type", "", "String", "", FALSE, "")
  >>

\* The field list of each struct.
StructFields(T) ==
  CASE T = "album::Album" -> Album_fields
    [] T = "album::ContributorArtist" -> album_ContributorArtist_fields
    [] T = "album::AlbumArtist" -> album_AlbumArtist_fields
    [] T = "album::AlbumTrackArtist" -> album_AlbumTrackArtist_fields
    [] T = "album::AlbumTrack" -> album_AlbumTrack_fields
    [] T = "album::AlbumGenre" -> album_AlbumGenre_fields
    [] T = "artist::Artist" -> Artist_fields
    [] T = "chart::Chart" -> Chart_fields
    [] T = "chart::ChartTrack" -> chart_ChartTrack_fields
    [] T = "chart::ChartTrackArtist" -> chart_ChartTrackArtist_fields
    [] T = "chart::ChartTrackAlbum" -> chart_ChartTrackAlbum_fields
    [] T = "chart::ChartAlbum" -> chart_ChartAlbum_fields
    [] T = "chart::ChartAlbumArtist" -> chart_ChartAlbumArtist_fields
    [] T = "chart::ChartArtist" -> chart_ChartArtist_fields
    [] T = "chart::ChartPlaylist" -> chart_ChartPlaylist_fields
    [] T = "chart::ChartPlaylistUser" -> chart_ChartPlaylistUser_fields
    [] T = "comment::Comment" -> Comment_fields
    [] T = "comment::CommentAuthor" -> comment_CommentAuthor_fields
    [] T = "editorial::Editorial" -> Editorial_fields
    [] T = "genre::Genre" -> Genre_fields
    [] T = "info::Info" -> Info_fields
    [] T = "info::Offer" -> info_Offer_fields
    [] T = "options::Options" -> Options_fields
    [] T = "playlist::Playlist" -> Playlist_fields
    [] T = "playlist::PlaylistUser" -> playlist_PlaylistUser_fields
    [] T = "playlist::PlaylistTrack" -> playlist_PlaylistTrack_fields
    [] T = "playlist::PlaylistTrackArtist" -> playlist_PlaylistTrackArtist_fields
    [] T = "playlist::PlaylistTrackAlbum" -> playlist_PlaylistTrackAlbum_fields
    [] T = "radio::Radio" -> Radio_fields
    [] T = "track::Track" -> Track_fields
    [] T = "track::ContributorArtist" -> track_ContributorArtist_fields
    [] T = "track::TrackArtist" -> track_TrackArtist_fields
    [] T = "track::TrackAlbum" -> track_TrackAlbum_fields
    [] T = "user::User" -> User_fields
    [] T = "comment::CommentParent" -> comment_CommentParent_fields

\* the structs
Structs ==
  {"album::Album", "album::ContributorArtist", "album::AlbumArtist",
   "album::AlbumTrackArtist", "album::AlbumTrack", "album::AlbumGenre",
   "artist::Artist", "chart::Chart", "chart::ChartTrack", "chart::ChartTrackArtist",
   "chart::ChartTrackAlbum", "chart::ChartAlbum", "chart::ChartAlbumArtist",
   "chart::ChartArtist", "chart::ChartPlaylist", "chart::ChartPlaylistUser",
   "comment::Comment", "comment::CommentAuthor", "editorial::Editorial",
   "genre::Genre", "info::Info", "info::Offer", "options::Options",
   "playlist::Playlist", "playlist::PlaylistUser", "playlist::PlaylistTrack",
   "playlist::PlaylistTrackArtist", "playlist::PlaylistTrackAlbum", "radio::Radio",
   "track::Track", "track::ContributorArtist", "track::TrackArtist",
   "track::TrackAlbum", "user::User", "comment::CommentParent"}

\* what #[derive(Deserialize)] generates the decoder of a struct from: its
\* fields, and the index of the field each JSON key names
Derive(fs) ==
  [fields |-> fs,
   index |-> Function([key \in {fs[n].key : n \in 1..Len(fs)} |->
                         CHOOSE n \in 1..Len(fs) : fs[n].key = key])]

Derived == Function([T \in Structs |-> Derive(StructFields(T))])

FieldsOf(T) == Derived[T].fields

\* the index of the field a JSON key names, 0 when the struct has none (the
\* member is then ignored)
FieldIndex(d, key) == IF key \in DOMAIN d.index THEN d.index[key] ELSE 0

(***************************************************************************)
(* Decoding.  A type is a record with wrap ("", "Option", "Vec"), base     *)
(* ("u32", "i32", "u64", "f32", "String", "bool", "struct") and, for a     *)
(* struct, its name in `of`; a field descriptor is a type with the field's *)
(* name, its JSON key and its serde attributes.                            *)
(***************************************************************************)
StructTy(T) == [wrap |-> "", base |-> "struct", of |-> T]
ElemTy(f) == [wrap |-> "", base |-> f.base, of |-> f.of]

\* Default::default() of a field's type, for #[serde(default)]
DefaultOf(f) ==
  CASE f.wrap = "Option" -> None
    [] f.wrap = "Vec" -> <<>>
    [] f.base = "u32" -> Zeros(2)
    [] f.base = "u64" -> Zeros(4)
    [] f.base = "i32" -> 0
    [] f.base = "bool" -> FALSE
    [] f.base = "String" -> ""

RECURSIVE ToValue(_)
RECURSIVE InsertAll(_, _, _)
\* serde_json::Map::insert for each member in turn: a repeated key keeps its
\* place and takes the later value
InsertAll(members, i, acc) ==
  IF i > Len(members) THEN acc
  ELSE LET k == members[i][1]
           v == ToValue(members[i][2])
       IN IF \E n \in 1..Len(acc) : acc[n][1] = k
          THEN InsertAll(members, i + 1,
                 Tuple([n \in 1..Len(acc) |-> IF acc[n][1] = k THEN <<k, v>> ELSE acc[n]]))
          ELSE InsertAll(members, i + 1, Append(acc, <<k, v>>))

\* `let helper: Value = Deserialize::deserialize(de)?`: the document as a
\* serde_json::Value, which every JSON document has
ToValue(j) ==
  CASE j.t = "obj" -> JObj(InsertAll(j.v, 1, <<>>))
    [] j.t = "arr" -> JArr(Tuple([n \in 1..Len(j.v) |-> ToValue(j.v[n])]))
    [] OTHER -> j

\* Value::get(key): Some(member) of an object that has the key
value_get(j, key) ==
  IF j.t = "obj" /\ \E n \in 1..Len(j.v) : j.v[n][1] = key
  THEN Some(j.v[CHOOSE n \in 1..Len(j.v) : j.v[n][1] = key][2])
  ELSE None

\* Value::as_array()
as_array(j) == IF j.t = "arr" THEN Some(j.v) ELSE None

RECURSIVE DecodeStruct(_, _)

\* a value of a non-generic type
DecodeBase(ty, j) ==
  CASE ty.base = "u32" -> visit_unsigned(j, 2)
    [] ty.base = "u64" -> visit_unsigned(j, 4)
    [] ty.base = "i32" -> visit_i32(j)
    [] ty.base = "f32" -> visit_f32(j)
    [] ty.base = "String" -> visit_string(j)
    [] ty.base = "bool" -> visit_bool(j)
    [] ty.base = "struct" -> DecodeStruct(ty.of, j)

\* serde_json::from_value::<T>(value)
from_value(ty, j) == DecodeBase(ty, j)

\* from_value::<T> of each value of a sequence
from_values(ty, arr) == Tuple([i \in 1..Len(arr) |-> from_value(ty, arr[i])])

\* the `for object in helper.get("data").unwrap().as_array().unwrap()` of the
\* list decoders iterates over these values (none when an unwrap panics)
data_array(de) ==
  LET data == value_get(ToValue(de), "data")
  IN IF ~data.some THEN <<>>
     ELSE IF ~as_array(data.v).some THEN <<>> ELSE as_array(data.v).v

RECURSIVE deserialize_map_silent(_, _, _, _)
\* the loop of deserialize_map with `Err(_) => ()`: nothing is printed
deserialize_map_silent(each, i, return_value, out) ==
  IF i > Len(each) THEN Ok(return_value, out)
  ELSE CASE each[i].st = "ok" ->
              deserialize_map_silent(each, i + 1, Append(return_value, each[i].v),
                                     out + each[i].out)
         [] each[i].st = "err" ->
              deserialize_map_silent(each, i + 1, return_value, out + each[i].out)
         [] each[i].st = "panic" -> Panic(out + each[i].out)

RECURSIVE deserialize_map_println(_, _, _, _)
\* the loop of deserialize_map with a println! of every object it pushes
deserialize_map_println(each, i, return_value, out) ==
  IF i > Len(each) THEN Ok(return_value, out)
  ELSE CASE each[i].st = "ok" ->
              deserialize_map_println(each, i + 1, Append(return_value, each[i].v),
                                      out + each[i].out + 1)
         [] each[i].st = "err" ->
              deserialize_map_println(each, i + 1, return_value, out + each[i].out + 1)
         [] each[i].st = "panic" -> Panic(out + each[i].out)

RECURSIVE deserialize_map_insert_first(_, _, _, _)
\* the loop of deserialize_map with return_value.insert(0, object) for push
deserialize_map_insert_first(each, i, return_value, out) ==
  IF i > Len(each) THEN Ok(return_value, out)
  ELSE CASE each[i].st = "ok" ->
              deserialize_map_insert_first(each, i + 1, <<each[i].v>> \o return_value,
                                           out + each[i].out)
         [] each[i].st = "err" ->
              deserialize_map_insert_first(each, i + 1, return_value, out + each[i].out + 1)
         [] each[i].st = "panic" -> Panic(out + each[i].out)

RECURSIVE deserialize_map_loop(_, _, _, _)
\* the for loop of deserialize_map, each[i] being from_value(object) of the
\* i-th object: Ok(object) => return_value.push(object), Err(e) => println!
deserialize_map_loop(each, i, return_value, out) ==
  IF i > Len(each) THEN Ok(return_value, out)
  ELSE CASE each[i].st = "ok" ->
              deserialize_map_loop(each, i + 1, Append(return_value, each[i].v), out + each[i].out)
         [] each[i].st = "err" ->
              deserialize_map_loop(each, i + 1, return_value, out + each[i].out + 1)
         [] each[i].st = "panic" -> Panic(out + each[i].out)

\* deserialize_map with `return_value.push(from_value(object)?)`: the first
\* element that does not decode is the error of the whole list
deserialize_map_try(de, each) ==
  LET helper == ToValue(de)
      data == value_get(helper, "data")
  IN IF ~data.some THEN Panic(0)
     ELSE IF ~as_array(data.v).some THEN Panic(0)
     ELSE IF \E i \in 1..Len(each) : each[i].st # "ok" THEN Err(0)
     ELSE deserialize_map_loop(each, 1, <<>>, 0)

\* deserialize_map with `unwrap_or` an empty list for the two unwraps
deserialize_map_or_empty(de, each) ==
  LET helper == ToValue(de)
      data == value_get(helper, "data")
  IN IF ~data.some THEN Ok(<<>>, 0)
     ELSE IF ~as_array(data.v).some THEN Ok(<<>>, 0)
     ELSE deserialize_map_loop(each, 1, <<>>, 0)

\* pub(crate) fn deserialize_map<T, D>(de: D) -> Result<Vec<T>, D::Error>,
\* with each == from_values(T, data_array(de))
deserialize_map(de, each) ==
  LET helper == ToValue(de)
      data == value_get(helper, "data")
  IN IF ~data.some THEN Panic(0)
     ELSE IF ~as_array(data.v).some THEN Panic(0)
     ELSE deserialize_map_loop(each, 1, <<>>, 0)

RECURSIVE deserialize_chart_skip(_, _, _, _)
\* the loop of deserialize_chart with the match of deserialize_map for unwrap
deserialize_chart_skip(each, i, return_value, out) ==
  IF i > Len(each) THEN Ok(return_value, out)
  ELSE IF each[i].st = "ok"
       THEN deserialize_chart_skip(each, i + 1, Append(return_value, each[i].v), out + each[i].out)
       ELSE deserialize_chart_skip(each, i + 1, return_value, out + each[i].out + 1)

RECURSIVE deserialize_chart_loop(_, _, _, _)
\* the for loop of deserialize_chart:
\* return_value.push(from_value(object).unwrap())
deserialize_chart_loop(each, i, return_value, out) ==
  IF i > Len(each) THEN Ok(return_value, out)
  ELSE IF each[i].st = "ok"
       THEN deserialize_chart_loop(each, i + 1, Append(return_value, each[i].v), out + each[i].out)
       ELSE Panic(out + each[i].out)

\* the lists of a chart decoded by deserialize_map
deserialize_chart_lenient(de, each) == deserialize_map(de, each)

\* fn deserialize_chart<T, D>(de: D) -> Result<Vec<T>, D::Error>, with
\* each == from_values(T, data_array(de))
deserialize_chart(de, each) ==
  LET helper == ToValue(de)
      data == value_get(helper, "data")
  IN IF ~data.some THEN Panic(0)
     ELSE IF ~as_array(data.v).some THEN Panic(0)
     ELSE deserialize_chart_loop(each, 1, <<>>, 0)

RECURSIVE deserialize_offers_skipping(_, _, _, _)
\* a loop over the offers that leaves out the ones that do not decode
deserialize_offers_skipping(each, i, return_value, out) ==
  IF i > Len(each) THEN Ok(return_value, out)
  ELSE IF each[i].st = "ok"
       THEN deserialize_offers_skipping(each, i + 1, Append(return_value, each[i].v),
                                        out + each[i].out)
       ELSE deserialize_offers_skipping(each, i + 1, return_value, out + each[i].out)

RECURSIVE deserialize_offers_loop(_, _, _, _)
\* the for loop of deserialize_offers
deserialize_offers_loop(each, i, return_value, out) ==
  IF i > Len(each) THEN Ok(return_value, out)
  ELSE IF each[i].st = "ok"
       THEN deserialize_offers_loop(each, i + 1, Append(return_value, each[i].v), out + each[i].out)
       ELSE Panic(out + each[i].out)

\* fn deserialize_offers<D>(de: D) -> Result<Vec<Offer>, D::Error>: the
\* document itself is the array; each == from_values(Offer, its elements)
deserialize_offers(de, each) ==
  LET helper == ToValue(de)
  IN IF ~as_array(helper).some THEN Panic(0)
     ELSE deserialize_offers_loop(each, 1, <<>>, 0)

RECURSIVE DecodeVec(_, _, _, _)
\* Vec<T>: every element in order, the first error ends the decode
DecodeVec(each, i, acc, out) ==
  IF i > Len(each) THEN Ok(acc, out)
  ELSE IF each[i].st = "ok"
       THEN DecodeVec(each, i + 1, Append(acc, each[i].v), out + each[i].out)
       ELSE [each[i] EXCEPT !.out = out + each[i].out]

\* an Option<T> that keeps no value
DecodeSome_absent(r) == IF r.st = "ok" THEN Ok(None, r.out) ELSE r

\* Option<T> of a value that is not null
DecodeSome(r) == IF r.st = "ok" THEN Ok(Some(r.v), r.out) ELSE r

\* the values a field's decoder decodes as the field's element type: the
\* objects of the list decoders, the elements of a Vec, or the value itself
ValuesOf(f, j) ==
  CASE f.with \in {"deserialize_map", "deserialize_chart"} -> data_array(j)
    [] f.with = "deserialize_offers" ->
         IF as_array(ToValue(j)).some THEN as_array(ToValue(j)).v ELSE <<>>
    [] f.wrap = "Vec" -> IF j.t = "arr" THEN j.v ELSE <<>>
    [] OTHER -> <<j>>

\* one field, each[i] being what the i-th of ValuesOf(f, j) decodes to:
\* through the function #[serde(deserialize_with)] names, or by its type T,
\* Option<T> (null is None) or Vec<T>
DecodeWith(f, j, each) ==
  CASE f.with = "deserialize_map" -> deserialize_map(j, each)
    [] f.with = "deserialize_chart" -> deserialize_chart(j, each)
    [] f.with = "deserialize_offers" -> deserialize_offers(j, each)
    [] f.wrap = "Vec" -> IF j.t # "arr" THEN Err(0) ELSE DecodeVec(each, 1, <<>>, 0)
    [] f.wrap = "Option" -> IF j.t = "null" THEN Ok(None, 0) ELSE DecodeSome(each[1])
    [] OTHER -> each[1]

DecodeField(f, j) == DecodeWith(f, j, from_values(ElemTy(f), ValuesOf(f, j)))

\* no field is #[serde(default)]
MissingField_no_default(f) == IF f.with = "" /\ f.wrap = "Option" THEN Ok(None, 0) ELSE Err(0)

\* every field treated as an Option without a decoder of its own: a missing
\* member is None
MissingField_none(f) == IF f.dflt THEN Ok(DefaultOf(f), 0) ELSE Ok(None, 0)

\* what a field takes when the document has no member for it
MissingField(f) ==
  IF f.dflt THEN Ok(DefaultOf(f), 0)
  ELSE IF f.with = "" /\ f.wrap = "Option" THEN Ok(None, 0)
  ELSE Err(0)

RECURSIVE Printed(_, _)
\* the lines printed by the first i of the decodes rs
Printed(rs, i) == IF i = 0 THEN 0 ELSE Printed(rs, i - 1) + rs[i].out

RECURSIVE Collect(_, _, _, _, _)
\* the record of the fields that the values lo..hi set, at[i] being the index
\* of the field value i is for (0 for none) and rs[i] what it decodes to
Collect(fields, at, rs, lo, hi) ==
  IF lo > hi THEN <<>>
  ELSE IF lo = hi
       THEN (IF at[lo] = 0 THEN <<>> ELSE fields[at[lo]].name :> rs[lo].v)
  ELSE Collect(fields, at, rs, lo, (lo + hi) \div 2)
       @@ Collect(fields, at, rs, (lo + hi) \div 2 + 1, hi)

\* the record of the fields the document has, the others left out
FillMissing_partial(fields, rec, out) == Ok(rec, out)

\* the end of the derived visit_map: a field no member set takes its missing
\* value; the visit fails if one of them has none
FillMissing(fields, rec, out) ==
  LET set == DOMAIN rec
      unset == {i \in 1..Len(fields) : fields[i].name \notin set}
  IN IF \E i \in unset : MissingField(fields[i]).st # "ok" THEN Err(out)
     ELSE Ok(rec @@ [name \in {fields[i].name : i \in unset} |->
                       MissingField(fields[CHOOSE i \in unset : fields[i].name = name]).v],
             out)

\* the index of the field each member of an object, resp. each element of an
\* array, is for
FieldOf(d, j) ==
  Tuple([i \in 1..Len(j.v) |->
           IF j.t = "obj" THEN FieldIndex(d, j.v[i][1])
           ELSE IF i <= Len(d.fields) THEN i ELSE 0])

\* what each member of an object, resp. each element of an array, decodes to
\* as the field it is for
FieldValues(d, j, at) ==
  Tuple([i \in 1..Len(j.v) |->
           IF at[i] = 0 THEN [st |-> "ignored", out |-> 0]
           ELSE DecodeField(d.fields[at[i]], IF j.t = "obj" THEN j.v[i][2] ELSE j.v[i])])

\* the derived visit_map: the members in document order.  The visit ends at
\* the first member that names a field already set (duplicate field; its value
\* is not decoded) or whose value does not decode; an unknown key is ignored
VisitMap(fields, at, rs) ==
  LET n == Len(at)
      known == {i \in 1..n : at[i] # 0}
  IN IF /\ \A i \in known : rs[i].st = "ok"
        /\ Cardinality({at[i] : i \in known}) = Cardinality(known)
     THEN FillMissing(fields, Collect(fields, at, rs, 1, n), Printed(rs, n))
     ELSE LET Duplicate(i) == \E k \in 1..(i - 1) : at[k] = at[i]
              ends == {i \in known : Duplicate(i) \/ rs[i].st # "ok"}
              p == CHOOSE i \in ends : \A k \in ends : i <= k
          IN IF Duplicate(p) THEN Err(Printed(rs, p - 1))
             ELSE [rs[p] EXCEPT !.out = Printed(rs, p)]

\* the derived visit_seq: a struct written as an array of its fields, in
\* declaration order.  The visit ends at the first element that does not
\* decode and at the first field past the end of the array that has no
\* default; elements past the last field are an error
VisitSeq(fields, at, rs) ==
  LET n == Len(fields)
      len == Len(at)
      ends == {i \in 1..n : IF i <= len THEN rs[i].st # "ok" ELSE ~fields[i].dflt}
  IN IF ends # {}
     THEN LET p == CHOOSE i \in ends : \A k \in ends : i <= k
          IN IF p <= len THEN [rs[p] EXCEPT !.out = Printed(rs, p)]
             ELSE Err(Printed(rs, len))
     ELSE IF len > n THEN Err(Printed(rs, n))
     ELSE Ok(Collect(fields, at, rs, 1, len)
             @@ [name \in {fields[i].name : i \in (len + 1)..n} |->
                   DefaultOf(fields[CHOOSE i \in (len + 1)..n : fields[i].name = name])],
             Printed(rs, len))

\* an object goes to visit_map, an array to visit_seq; rs is what its
\* members, resp. elements, decode to
Visit(d, j, at, rs) ==
  IF j.t = "obj" THEN VisitMap(d.fields, at, rs) ELSE VisitSeq(d.fields, at, rs)

VisitFields(d, j, at) == Visit(d, j, at, FieldValues(d, j, at))

\* Deserializer::deserialize_struct
deserialize_struct(d, j) ==
  IF j.t \notin {"obj", "arr"} THEN Err(0) ELSE VisitFields(d, j, FieldOf(d, j))

\* the decoder #[derive(Deserialize)] generates for struct T
DecodeStruct(T, j) == deserialize_struct(Derived[T], j)

\* the result handed on as it is, an Err for the caller to look at
unwrap_or_return(r) == r

\* Result::unwrap
unwrap(r) == IF r.st # "ok" THEN Panic(r.out) ELSE r

\* serde_json::from_str::<T>(text): the text is JSON or it is not
from_str(T, text) ==
  IF ~text.json THEN Err(0) ELSE DecodeStruct(T, text.value)

(***************************************************************************)
(* The HTTP client.  `net` is what the network does with one request:      *)
(* net.transport is FALSE when no response arrives (DNS, connect, timeout),*)
(* net.status is the status of the response, net.readable whether its body *)
(* can be read as text, net.text the body.  Neither send() nor text()      *)
(* looks at the status: a response with any status is an Ok(Response).     *)
(* `sent` lists the URLs requested.                                        *)
(***************************************************************************)
\* Client::new()
Client_new == [pool |-> "default"]

\* send() that tries once more when no response arrives
send_again(client, url, net) ==
  IF ~net.transport THEN [st |-> "err", sent |-> <<url, url>>]
  ELSE [st |-> "ok", v |-> [status |-> net.status, readable |-> net.readable, text |-> net.text],
        sent |-> <<url>>]

\* client.get(url).send() -> Result<Response>
send(client, url, net) ==
  IF ~net.transport THEN [st |-> "err", sent |-> <<url>>]
  ELSE [st |-> "ok", v |-> [status |-> net.status, readable |-> net.readable, text |-> net.text],
        sent |-> <<url>>]

\* reqwest::get(url) followed by error_for_status(): a status of 400 or more
\* is an Err
reqwest_get_error_for_status(url, net) ==
  IF net.transport /\ net.status >= 400 THEN [st |-> "err", sent |-> <<url>>]
  ELSE send(Client_new, url, net)

\* reqwest::get(url): a request through a client of its own
reqwest_get(url, net) == send(Client_new, url, net)

\* Response::text() -> Result<String>
text(resp) == IF ~resp.readable THEN Err(0) ELSE Ok(resp.text, 0)

\* what a fetch did: the requests it sent and how it ended, Ok(record of type T)
\* or a panic
Call(T, sent, ret) == [ty |-> T, sent |-> sent, ret |-> ret]

(***************************************************************************)
(* The fetchers, resource by resource.                                     *)
(***************************************************************************)
\* Album::new without the if: the genre_id stays as decoded
Album_genre_id_kept(album) == album

RECURSIVE WithoutSentinel(_)
\* the album with None for every genre_id of -1, in its alternatives too
WithoutSentinel(a) ==
  [a EXCEPT !.genre_id = IF @ = Some(-1) THEN None ELSE @,
            !.alternative_album = IF @.some THEN Some(WithoutSentinel(@.v)) ELSE @]

\* the if applied to the album and to each album of its chain of alternatives
Album_genre_id_deep(album) ==
  IF album.st # "ok" THEN album ELSE Ok(WithoutSentinel(album.v), album.out)

\* the if of Album::new: `if let Some(-1) = album.genre_id { album.genre_id = None; }`
Album_genre_id(album) ==
  IF album.st # "ok" THEN album
  ELSE IF album.v.genre_id = Some(-1)
       THEN Ok([album.v EXCEPT !.genre_id = None], album.out)
       ELSE album

\* fn get_track_api(id: u32) -> String
get_track_api(id) == "https://api.deezer.com/track/" \o to_string(id)

\* Track::new: serde_json::from_str(&json).unwrap()
Track_new(json) == unwrap(from_str("track::Track", json))

\* Track::get: reqwest::get(&track_api).unwrap(), resp.text().unwrap(), Self::new(&json)
Track_get(id, net) ==
  LET track_api == get_track_api(id)
      resp == reqwest_get(track_api, net)
  IN IF resp.st # "ok" THEN Call("track::Track", resp.sent, Panic(0))
     ELSE LET json == text(resp.v)
          IN IF json.st # "ok" THEN Call("track::Track", resp.sent, Panic(0))
             ELSE Call("track::Track", resp.sent, Track_new(json.v))

\* Api::get_track: self.client.get(&url).send().unwrap().text().unwrap(), Track::new(&json)
Api_get_track(self, id, net) ==
  LET resp == send(self.client, get_track_api(id), net)
  IN IF resp.st # "ok" THEN Call("track::Track", resp.sent, Panic(0))
     ELSE LET json == text(resp.v)
          IN IF json.st # "ok" THEN Call("track::Track", resp.sent, Panic(0))
             ELSE Call("track::Track", resp.sent, Track_new(json.v))

\* fn get_artist_api(id: u32) -> String
get_artist_api(id) == "https://api.deezer.com/artist/" \o to_string(id)

\* Artist::new: serde_json::from_str(&json).unwrap()
Artist_new(json) == unwrap(from_str("artist::Artist", json))

\* Artist::get: reqwest::get(&artist_api).unwrap(), resp.text().unwrap(), Self::new(&json)
Artist_get(id, net) ==
  LET artist_api == get_artist_api(id)
      resp == reqwest_get(artist_api, net)
  IN IF resp.st # "ok" THEN Call("artist::Artist", resp.sent, Panic(0))
     ELSE LET json == text(resp.v)
          IN IF json.st # "ok" THEN Call("artist::Artist", resp.sent, Panic(0))
             ELSE Call("artist::Artist", resp.sent, Artist_new(json.v))

\* Api::get_artist: self.client.get(&url).send().unwrap().text().unwrap(), Artist::new(&json)
Api_get_artist(self, id, net) ==
  LET resp == send(self.client, get_artist_api(id), net)
  IN IF resp.st # "ok" THEN Call("artist::Artist", resp.sent, Panic(0))
     ELSE LET json == text(resp.v)
          IN IF json.st # "ok" THEN Call("artist::Artist", resp.sent, Panic(0))
             ELSE Call("artist::Artist", resp.sent, Artist_new(json.v))

\* fn get_album_api(id: u32) -> String
get_album_api(id) == "https://api.deezer.com/album/" \o to_string(id)

\* Album::new: decode, then a genre_id of Some(-1) becomes None; a decode
\* error is unwrapped
Album_new(json) == Album_genre_id(unwrap(from_str("album::Album", json)))

\* Album::get: reqwest::get(&album_api).unwrap(), resp.text().unwrap(), Self::new(&json)
Album_get(id, net) ==
  LET album_api == get_album_api(id)
      resp == reqwest_get(album_api, net)
  IN IF resp.st # "ok" THEN Call("album::Album", resp.sent, Panic(0))
     ELSE LET json == text(resp.v)
          IN IF json.st # "ok" THEN Call("album::Album", resp.sent, Panic(0))
             ELSE Call("album::Album", resp.sent, Album_new(json.v))

\* Api::get_album: self.client.get(&url).send().unwrap().text().unwrap(), Album::new(&json)
Api_get_album(self, id, net) ==
  LET resp == send(self.client, get_album_api(id), net)
  IN IF resp.st # "ok" THEN Call("album::Album", resp.sent, Panic(0))
     ELSE LET json == text(resp.v)
          IN IF json.st # "ok" THEN Call("album::Album", resp.sent, Panic(0))
             ELSE Call("album::Album", resp.sent, Album_new(json.v))

\* fn get_genre_api(id: u32) -> String
get_genre_api(id) == "https://api.deezer.com/genre/" \o to_string(id)

\* Genre::new: serde_json::from_str(&json).unwrap()
Genre_new(json) == unwrap(from_str("genre::Genre", json))

\* Genre::get: reqwest::get(&genre_api).unwrap(), resp.text().unwrap(), Self::new(&json)
Genre_get(id, net) ==
  LET genre_api == get_genre_api(id)
      resp == reqwest_get(genre_api, net)
  IN IF resp.st # "ok" THEN Call("genre::Genre", resp.sent, Panic(0))
     ELSE LET json == text(resp.v)
          IN IF json.st # "ok" THEN Call("genre::Genre", resp.sent, Panic(0))
             ELSE Call("genre::Genre", resp.sent, Genre_new(json.v))

\* Api::get_genre: self.client.get(&url).send().unwrap().text().unwrap(), Genre::new(&json)
Api_get_genre(self, id, net) ==
  LET resp == send(self.client, get_genre_api(id), net)
  IN IF resp.st # "ok" THEN Call("genre::Genre", resp.sent, Panic(0))
     ELSE LET json == text(resp.v)
          IN IF json.st # "ok" THEN Call("genre::Genre", resp.sent, Panic(0))
             ELSE Call("genre::Genre", resp.sent, Genre_new(json.v))

\* fn get_comment_api(id: u32) -> String
get_comment_api(id) == "https://api.deezer.com/comment/" \o to_string(id)

\* Comment::new: serde_json::from_str(&json).unwrap()
Comment_new(json) == unwrap(from_str("comment::Comment", json))

\* Comment::get: reqwest::get(&comment_api).unwrap(), resp.text().unwrap(), Self::new(&json)
Comment_get(id, net) ==
  LET comment_api == get_comment_api(id)
      resp == reqwest_get(comment_api, net)
  IN IF resp.st # "ok" THEN Call("comment::Comment", resp.sent, Panic(0))
     ELSE LET json == text(resp.v)
          IN IF json.st # "ok" THEN Call("comment::Comment", resp.sent, Panic(0))
             ELSE Call("comment::Comment", resp.sent, Comment_new(json.v))

\* Api::get_comment: self.client.get(&url).send().unwrap().text().unwrap(), Comment::new(&json)
Api_get_comment(self, id, net) ==
  LET resp == send(self.client, get_comment_api(id), net)
  IN IF resp.st # "ok" THEN Call("comment::Comment", resp.sent, Panic(0))
     ELSE LET json == text(resp.v)
          IN IF json.st # "ok" THEN Call("comment::Comment", resp.sent, Panic(0))
             ELSE Call("comment::Comment", resp.sent, Comment_new(json.v))

\* fn get_user_api(id: u32) -> String
get_user_api(id) == "https://api.deezer.com/user/" \o to_string(id)

\* User::new: serde_json::from_str(&json).unwrap()
User_new(json) == unwrap(from_str("user::User", json))

\* User::get: reqwest::get(&user_api).unwrap(), resp.text().unwrap(), Self::new(&json)
User_get(id, net) ==
  LET user_api == get_user_api(id)
      resp == reqwest_get(user_api, net)
  IN IF resp.st # "ok" THEN Call("user::User", resp.sent, Panic(0))
     ELSE LET json == text(resp.v)
          IN IF json.st # "ok" THEN Call("user::User", resp.sent, Panic(0))
             ELSE Call("user::User", resp.sent, User_new(json.v))

\* Api::get_user: self.client.get(&url).send().unwrap().text().unwrap(), User::new(&json)
Api_get_user(self, id, net) ==
  LET resp == send(self.client, get_user_api(id), net)
  IN IF resp.st # "ok" THEN Call("user::User", resp.sent, Panic(0))
     ELSE LET json == text(resp.v)
          IN IF json.st # "ok" THEN Call("user::User", resp.sent, Panic(0))
             ELSE Call("user::User", resp.sent, User_new(json.v))

\* fn get_playlist_api(id: u32) -> String
get_playlist_api(id) == "https://api.deezer.com/playlist/" \o to_string(id)

\* Playlist::new with an if after the decode: a rating of 0 is made a None
Playlist_new_rating(json) ==
  LET playlist == unwrap(from_str("playlist::Playlist", json))
  IN IF playlist.st # "ok" THEN playlist
     ELSE IF playlist.v.rating = Some(<<0, 0>>)
          THEN Ok([playlist.v EXCEPT !.rating = None], playlist.out)
          ELSE playlist

\* Playlist::new: serde_json::from_str(&json).unwrap()
Playlist_new(json) == unwrap(from_str("playlist::Playlist", json))

\* Playlist::get: reqwest::get(&playlist_api).unwrap(), resp.text().unwrap(), Self::new(&json)
Playlist_get(id, net) ==
  LET playlist_api == get_playlist_api(id)
      resp == reqwest_get(playlist_api, net)
  IN IF resp.st # "ok" THEN Call("playlist::Playlist", resp.sent, Panic(0))
     ELSE LET json == text(resp.v)
          IN IF json.st # "ok" THEN Call("playlist::Playlist", resp.sent, Panic(0))
             ELSE Call("playlist::Playlist", resp.sent, Playlist_new(json.v))

\* Api::get_playlist: self.client.get(&url).send().unwrap().text().unwrap(), Playlist::new(&json)
Api_get_playlist(self, id, net) ==
  LET resp == send(self.client, get_playlist_api(id), net)
  IN IF resp.st # "ok" THEN Call("playlist::Playlist", resp.sent, Panic(0))
     ELSE LET json == text(resp.v)
          IN IF json.st # "ok" THEN Call("playlist::Playlist", resp.sent, Panic(0))
             ELSE Call("playlist::Playlist", resp.sent, Playlist_new(json.v))

\* fn get_editorial_api(id: u32) -> String
get_editorial_api(id) == "https://api.deezer.com/editorial/" \o to_string(id)

\* Editorial::new: serde_json::from_str(&json).unwrap()
Editorial_new(json) == unwrap(from_str("editorial::Editorial", json))

\* a list of the editorials fetched from the root of the resource
Editorial_all_fetched ==
  Call("editorial::Editorial", <<"https://api.deezer.com/editorial">>, Ok(<<>>, 0))

\* Editorial::all: unimplemented!()
Editorial_all == Call("editorial::Editorial", <<>>, Panic(0))

\* Editorial::get: reqwest::get(&editorial_api).unwrap(), resp.text().unwrap(), Self::new(&json)
Editorial_get(id, net) ==
  LET editorial_api == get_editorial_api(id)
      resp == reqwest_get(editorial_api, net)
  IN IF resp.st # "ok" THEN Call("editorial::Editorial", resp.sent, Panic(0))
     ELSE LET json == text(resp.v)
          IN IF json.st # "ok" THEN Call("editorial::Editorial", resp.sent, Panic(0))
             ELSE Call("editorial::Editorial", resp.sent, Editorial_new(json.v))

\* Api::get_editorial: self.client.get(&url).send().unwrap().text().unwrap(), Editorial::new(&json)
Api_get_editorial(self, id, net) ==
  LET resp == send(self.client, get_editorial_api(id), net)
  IN IF resp.st # "ok" THEN Call("editorial::Editorial", resp.sent, Panic(0))
     ELSE LET json == text(resp.v)
          IN IF json.st # "ok" THEN Call("editorial::Editorial", resp.sent, Panic(0))
             ELSE Call("editorial::Editorial", resp.sent, Editorial_new(json.v))

\* fn get_radio_api(id: u32) -> String
get_radio_api(id) == "https://api.deezer.com/radio/" \o to_string(id)

\* Radio::new: serde_json::from_str(&json).unwrap()
Radio_new(json) == unwrap(from_str("radio::Radio", json))

\* Radio::get: reqwest::get(&radio_api).unwrap(), resp.text().unwrap(), Self::new(&json)
Radio_get(id, net) ==
  LET radio_api == get_radio_api(id)
      resp == reqwest_get(radio_api, net)
  IN IF resp.st # "ok" THEN Call("radio::Radio", resp.sent, Panic(0))
     ELSE LET json == text(resp.v)
          IN IF json.st # "ok" THEN Call("radio::Radio", resp.sent, Panic(0))
             ELSE Call("radio::Radio", resp.sent, Radio_new(json.v))

\* Api::get_radio: self.client.get(&url).send().unwrap().text().unwrap(), Radio::new(&json)
Api_get_radio(self, id, net) ==
  LET resp == send(self.client, get_radio_api(id), net)
  IN IF resp.st # "ok" THEN Call("radio::Radio", resp.sent, Panic(0))
     ELSE LET json == text(resp.v)
          IN IF json.st # "ok" THEN Call("radio::Radio", resp.sent, Panic(0))
             ELSE Call("radio::Radio", resp.sent, Radio_new(json.v))

\* fn get_info_api() -> String
get_info_api == "https://api.deezer.com/infos"

\* Info::new: serde_json::from_str(&json).unwrap()
Info_new(json) == unwrap(from_str("info::Info", json))

\* Info::get: reqwest::get(&info_api).unwrap(), resp.text().unwrap(), Self::new(&json)
Info_get(net) ==
  LET info_api == get_info_api
      resp == reqwest_get(info_api, net)
  IN IF resp.st # "ok" THEN Call("info::Info", resp.sent, Panic(0))
     ELSE LET json == text(resp.v)
          IN IF json.st # "ok" THEN Call("info::Info", resp.sent, Panic(0))
             ELSE Call("info::Info", resp.sent, Info_new(json.v))

\* Api::get_info: self.client.get(&url).send().unwrap().text().unwrap(), Info::new(&json)
Api_get_info(self, net) ==
  LET resp == send(self.client, get_info_api, net)
  IN IF resp.st # "ok" THEN Call("info::Info", resp.sent, Panic(0))
     ELSE LET json == text(resp.v)
          IN IF json.st # "ok" THEN Call("info::Info", resp.sent, Panic(0))
             ELSE Call("info::Info", resp.sent, Info_new(json.v))

\* fn get_chart_api() -> String
get_chart_api == "https://api.deezer.com/chart"

\* Chart::new: serde_json::from_str(&json).unwrap()
Chart_new(json) == unwrap(from_str("chart::Chart", json))

\* Chart::get: reqwest::get(&chart_api).unwrap(), resp.text().unwrap(), Self::new(&json)
Chart_get(net) ==
  LET chart_api == get_chart_api
      resp == reqwest_get(chart_api, net)
  IN IF resp.st # "ok" THEN Call("chart::Chart", resp.sent, Panic(0))
     ELSE LET json == text(resp.v)
          IN IF json.st # "ok" THEN Call("chart::Chart", resp.sent, Panic(0))
             ELSE Call("chart::Chart", resp.sent, Chart_new(json.v))

\* Api::get_chart: self.client.get(&url).send().unwrap().text().unwrap(), Chart::new(&json)
Api_get_chart(self, net) ==
  LET resp == send(self.client, get_chart_api, net)
  IN IF resp.st # "ok" THEN Call("chart::Chart", resp.sent, Panic(0))
     ELSE LET json == text(resp.v)
          IN IF json.st # "ok" THEN Call("chart::Chart", resp.sent, Panic(0))
             ELSE Call("chart::Chart", resp.sent, Chart_new(json.v))

\* fn get_options_api() -> String
get_options_api == "https://api.deezer.com/options"

\* Options::new: serde_json::from_str(&json).unwrap()
Options_new(json) == unwrap(from_str("options::Options", json))

\* Options::get: reqwest::get(&options_api).unwrap(), resp.text().unwrap(), Self::new(&json)
Options_get(net) ==
  LET options_api == get_options_api
      resp == reqwest_get(options_api, net)
  IN IF resp.st # "ok" THEN Call("options::Options", resp.sent, Panic(0))
     ELSE LET json == text(resp.v)
          IN IF json.st # "ok" THEN Call("options::Options", resp.sent, Panic(0))
             ELSE Call("options::Options", resp.sent, Options_new(json.v))

\* Api::get_options: self.client.get(&url).send().unwrap().text().unwrap(), Options::new(&json)
Api_get_options(self, net) ==
  LET resp == send(self.client, get_options_api, net)
  IN IF resp.st # "ok" THEN Call("options::Options", resp.sent, Panic(0))
     ELSE LET json == text(resp.v)
          IN IF json.st # "ok" THEN Call("options::Options", resp.sent, Panic(0))
             ELSE Call("options::Options", resp.sent, Options_new(json.v))

(***************************************************************************)
(* The get_full methods of the shortened records.                          *)
(***************************************************************************)
\* album::ContributorArtist::get_full(&self) -> Artist
album_ContributorArtist_get_full(self, net) == Artist_get(self.id, net)

\* album::AlbumArtist::get_full(&self) -> Artist
album_AlbumArtist_get_full(self, net) == Artist_get(self.id, net)

\* album::AlbumTrackArtist::get_full(&self) -> Artist
album_AlbumTrackArtist_get_full(self, net) == Artist_get(self.id, net)

\* album::AlbumTrack::get_full(&self) -> Track
album_AlbumTrack_get_full(self, net) == Track_get(self.id, net)

\* album::AlbumGenre::get_full(&self) -> Genre
album_AlbumGenre_get_full(self, net) == Genre_get(self.id, net)

\* chart::ChartTrack::get_full(&self) -> Track
chart_ChartTrack_get_full(self, net) == Track_get(self.id, net)

\* chart::ChartTrackArtist::get_full(&self) -> Artist
chart_ChartTrackArtist_get_full(self, net) == Artist_get(self.id, net)

\* chart::ChartTrackAlbum::get_full(&self) -> Album
chart_ChartTrackAlbum_get_full(self, net) == Album_get(self.id, net)

\* chart::ChartAlbum::get_full(&self) -> Album
chart_ChartAlbum_get_full(self, net) == Album_get(self.id, net)

\* chart::ChartAlbumArtist::get_full(&self) -> Artist
chart_ChartAlbumArtist_get_full(self, net) == Artist_get(self.id, net)

\* chart::ChartArtist::get_full(&self) -> Artist
chart_ChartArtist_get_full(self, net) == Artist_get(self.id, net)

\* chart::ChartPlaylist::get_full(&self) -> Playlist
chart_ChartPlaylist_get_full(self, net) == Playlist_get(self.id, net)

\* chart::ChartPlaylistUser::get_full(&self) -> User
chart_ChartPlaylistUser_get_full(self, net) == User_get(self.id, net)

\* comment::CommentAuthor::get_full(&self) -> User
comment_CommentAuthor_get_full(self, net) == User_get(self.id, net)

\* playlist::PlaylistUser::get_full(&self) -> User
playlist_PlaylistUser_get_full(self, net) == User_get(self.id, net)

\* playlist::PlaylistTrack::get_full(&self) -> Track
playlist_PlaylistTrack_get_full(self, net) == Track_get(self.id, net)

\* playlist::PlaylistTrackArtist::get_full(&self) -> Artist
playlist_PlaylistTrackArtist_get_full(self, net) == Artist_get(self.id, net)

\* playlist::PlaylistTrackAlbum::get_full(&self) -> Album
playlist_PlaylistTrackAlbum_get_full(self, net) == Album_get(self.id, net)

\* track::ContributorArtist::get_full(&self) -> Artist
track_ContributorArtist_get_full(self, net) == Artist_get(self.id, net)

\* track::TrackArtist::get_full(&self) -> Artist
track_TrackArtist_get_full(self, net) == Artist_get(self.id, net)

\* get_full of the album of a track fetching the track again
track_TrackAlbum_get_track(self, net) == Track_get(self.id, net)

\* track::TrackAlbum::get_full(&self) -> Album
track_TrackAlbum_get_full(self, net) == Album_get(self.id, net)

(***************************************************************************)
(* The operations by resource.                                            *)
(***************************************************************************)
IdResources == {"track", "artist", "album", "genre", "comment", "user", "playlist",
                "editorial", "radio"}
SingletonResources == {"info", "chart", "options"}
Resources == IdResources \cup SingletonResources

\* the record type a resource's fetch returns
RecordOf(res) ==
  CASE res = "track" -> "track::Track"
    [] res = "artist" -> "artist::Artist"
    [] res = "album" -> "album::Album"
    [] res = "genre" -> "genre::Genre"
    [] res = "comment" -> "comment::Comment"
    [] res = "user" -> "user::User"
    [] res = "playlist" -> "playlist::Playlist"
    [] res = "editorial" -> "editorial::Editorial"
    [] res = "radio" -> "radio::Radio"
    [] res = "info" -> "info::Info"
    [] res = "chart" -> "chart::Chart"
    [] res = "options" -> "options::Options"

\* X::get(id), resp. X::get()
StandaloneGet(res, id, net) ==
  CASE res = "track" -> Track_get(id, net)
    [] res = "artist" -> Artist_get(id, net)
    [] res = "album" -> Album_get(id, net)
    [] res = "genre" -> Genre_get(id, net)
    [] res = "comment" -> Comment_get(id, net)
    [] res = "user" -> User_get(id, net)
    [] res = "playlist" -> Playlist_get(id, net)
    [] res = "editorial" -> Editorial_get(id, net)
    [] res = "radio" -> Radio_get(id, net)
    [] res = "info" -> Info_get(net)
    [] res = "chart" -> Chart_get(net)
    [] res = "options" -> Options_get(net)

\* self.get_x(id), resp. self.get_x()
FacadeGet(self, res, id, net) ==
  CASE res = "track" -> Api_get_track(self, id, net)
    [] res = "artist" -> Api_get_artist(self, id, net)
    [] res = "album" -> Api_get_album(self, id, net)
    [] res = "genre" -> Api_get_genre(self, id, net)
    [] res = "comment" -> Api_get_comment(self, id, net)
    [] res = "user" -> Api_get_user(self, id, net)
    [] res = "playlist" -> Api_get_playlist(self, id, net)
    [] res = "editorial" -> Api_get_editorial(self, id, net)
    [] res = "radio" -> Api_get_radio(self, id, net)
    [] res = "info" -> Api_get_info(self, net)
    [] res = "chart" -> Api_get_chart(self, net)
    [] res = "options" -> Api_get_options(self, net)

\* r.get_full() for a shortened record r of type T
GetFullOf(T, self, net) ==
  CASE T = "album::ContributorArtist" -> album_ContributorArtist_get_full(self, net)
    [] T = "album::AlbumArtist" -> album_AlbumArtist_get_full(self, net)
    [] T = "album::AlbumTrackArtist" -> album_AlbumTrackArtist_get_full(self, net)
    [] T = "album::AlbumTrack" -> album_AlbumTrack_get_full(self, net)
    [] T = "album::AlbumGenre" -> album_AlbumGenre_get_full(self, net)
    [] T = "chart::ChartTrack" -> chart_ChartTrack_get_full(self, net)
    [] T = "chart::ChartTrackArtist" -> chart_ChartTrackArtist_get_full(self, net)
    [] T = "chart::ChartTrackAlbum" -> chart_ChartTrackAlbum_get_full(self, net)
    [] T = "chart::ChartAlbum" -> chart_ChartAlbum_get_full(self, net)
    [] T = "chart::ChartAlbumArtist" -> chart_ChartAlbumArtist_get_full(self, net)
    [] T = "chart::ChartArtist" -> chart_ChartArtist_get_full(self, net)
    [] T = "chart::ChartPlaylist" -> chart_ChartPlaylist_get_full(self, net)
    [] T = "chart::ChartPlaylistUser" -> chart_ChartPlaylistUser_get_full(self, net)
    [] T = "comment::CommentAuthor" -> comment_CommentAuthor_get_full(self, net)
    [] T = "playlist::PlaylistUser" -> playlist_PlaylistUser_get_full(self, net)
    [] T = "playlist::PlaylistTrack" -> playlist_PlaylistTrack_get_full(self, net)
    [] T = "playlist::PlaylistTrackArtist" -> playlist_PlaylistTrackArtist_get_full(self, net)
    [] T = "playlist::PlaylistTrackAlbum" -> playlist_PlaylistTrackAlbum_get_full(self, net)
    [] T = "track::ContributorArtist" -> track_ContributorArtist_get_full(self, net)
    [] T = "track::TrackArtist" -> track_TrackArtist_get_full(self, net)
    [] T = "track::TrackAlbum" -> track_TrackAlbum_get_full(self, net)

\* the record types that have a get_full method
Shortened ==
  {"album::ContributorArtist", "album::AlbumArtist", "album::AlbumTrackArtist",
   "album::AlbumTrack", "album::AlbumGenre", "chart::ChartTrack", "chart::ChartTrackArtist",
   "chart::ChartTrackAlbum", "chart::ChartAlbum", "chart::ChartAlbumArtist",
   "chart::ChartArtist", "chart::ChartPlaylist", "chart::ChartPlaylistUser",
   "comment::CommentAuthor", "playlist::PlaylistUser", "playlist::PlaylistTrack",
   "playlist::PlaylistTrackArtist", "playlist::PlaylistTrackAlbum",
   "track::ContributorArtist", "track::TrackArtist", "track::TrackAlbum"}

RECURSIVE RefsIn(_, _)
\* the shortened records a record of type T owns, each with its type: the
\* values of its struct-typed fields and, recursively, of theirs
RefsIn(T, rec) ==
  LET fs == FieldsOf(T)
      Values(f) ==
        CASE f.base # "struct" -> {}
          [] f.wrap = "" -> {rec[f.name]}
          [] f.wrap = "Option" -> IF rec[f.name].some THEN {rec[f.name].v} ELSE {}
          [] f.wrap = "Vec" -> {rec[f.name][i] : i \in 1..Len(rec[f.name])}
  IN UNION {
       UNION { (IF fs[n].of \in Shortened THEN {[ty |-> fs[n].of, rec |-> v]} ELSE {})
               \cup RefsIn(fs[n].of, v) : v \in Values(fs[n]) }
       : n \in 1..Len(fs) }

(***************************************************************************)
(* The documents and responses the model is run on.                       *)
(***************************************************************************)
\* bounds
MaxCalls == 2
MaxLen == 3

\* the ids the fetches are made with: a small one and one above 2^31
Id27 == U32(27)
Id4179157801 == <<58153, 63768>>
Ids == {Id27, Id4179157801}

Wire27 == JNum(27)
Wire4179157801 == JNumber(FALSE, <<4, 1, 7, 9, 1, 5, 7, 8, 0, 1>>, FALSE)

RECURSIVE WellFormed(_, _)
\* a document struct T decodes from: every field but a self-referential one is
\* present, `id` is idj, a nested record in field n has id 100 + n, lists have
\* one element
WellFormed(T, idj) ==
  LET fs == SelectSeq(FieldsOf(T), LAMBDA f : ~(f.base = "struct" /\ f.of = T))
      Elem(f, n) ==
        CASE f.base = "struct" -> WellFormed(f.of, JNum(100 + n))
          [] f.base = "String" -> JStr(IF f.name = "id" THEN "27" ELSE "s")
          [] f.base = "bool" -> JBool(TRUE)
          [] f.base = "f32" -> JNumber(FALSE, <<1>>, TRUE)
          [] f.base = "i32" -> JNum(5)
          [] OTHER -> IF f.name = "id" THEN idj ELSE JNum(n)
      Value(f, n) ==
        CASE f.with \in {"deserialize_map", "deserialize_chart"} ->
               JObj(<< <<"data", JArr(<<Elem(f, n)>>)>> >>)
          [] f.with = "deserialize_offers" -> JArr(<<Elem(f, n)>>)
          [] f.wrap = "Vec" -> JArr(<<Elem(f, n)>>)
          [] OTHER -> Elem(f, n)
  IN JObj(Tuple([n \in 1..Len(fs) |-> <<fs[n].key, Value(fs[n], n)>>]))

\* the document without the member `key`
Without(doc, key) == JObj(SelectSeq(doc.v, LAMBDA m : m[1] # key))

\* the document with the member `key` set to `val` (appended when absent)
With(doc, key, val) ==
  IF \E n \in 1..Len(doc.v) : doc.v[n][1] = key
  THEN JObj(Tuple([n \in 1..Len(doc.v) |-> IF doc.v[n][1] = key THEN <<key, val>> ELSE doc.v[n]]))
  ELSE JObj(Append(doc.v, <<key, val>>))

NotJson == [json |-> FALSE]
Json(value) == [json |-> TRUE, value |-> value]

NoResponse == [transport |-> FALSE, status |-> 0, readable |-> FALSE, text |-> NotJson]
Unreadable(status) == [transport |-> TRUE, status |-> status, readable |-> FALSE, text |-> NotJson]
Response(status, body) == [transport |-> TRUE, status |-> status, readable |-> TRUE, text |-> body]

\* the body Deezer sends for an unknown id
ErrorBody ==
  Json(JObj(<< <<"error", JObj(<< <<"type", JStr("DataException")>>,
                                 <<"message", JStr("no data")>>,
                                 <<"code", JNum(800)>> >>)>> >>))

\* the key of the first field of T a document must have
FirstRequiredKey(T) ==
  LET fs == FieldsOf(T)
      n == CHOOSE n \in 1..Len(fs) :
             /\ ~fs[n].dflt /\ (fs[n].wrap # "Option" \/ fs[n].with # "")
             /\ \A m \in 1..(n - 1) : fs[m].dflt \/ (fs[m].wrap = "Option" /\ fs[m].with = "")
  IN fs[n].key

\* the genre_id values an album document is tried with: the number on the wire
\* and the i32 it denotes
GenreIds ==
  {[wire |-> JNum(-1), val |-> -1], [wire |-> JNum(0), val |-> 0],
   [wire |-> JNum(5), val |-> 5], [wire |-> JNum(-2), val |-> -2],
   [wire |-> JNum(2147483647), val |-> 2147483647],
   [wire |-> JNumber(TRUE, <<2, 1, 4, 7, 4, 8, 3, 6, 4, 8>>, FALSE), val |-> -2147483647 - 1]}

\* the album document of id 27 with the given genre_id
AlbumWithGenre(g) == With(WellFormed("album::Album", Wire27), "genre_id", g)

\* the elements an envelope is built from: decodable ones and undecodable ones
Elements(T) ==
  LET e == WellFormed(T, Wire27)
  IN [good |-> {e, WellFormed(T, Wire4179157801)},
      bad |-> {Without(e, "id"), With(e, "id", JNum(-1)), JNull}]

\* {"data": [e1, ..., en]}
Envelope(elems) == JObj(<< <<"data", JArr(elems)>> >>)

\* documents that do not match the schema of the record of res: the error
\* object, a required field missing, a field of the wrong type, and the same
\* inside a nested record or an element of a list decoded by Vec<T>,
\* deserialize_chart or deserialize_offers
Mismatched(res) ==
  LET T == RecordOf(res)
      doc == WellFormed(T, Wire27)
  IN {ErrorBody.value, Without(doc, FirstRequiredKey(T)), With(doc, FirstRequiredKey(T), JNull)}
     \cup (CASE res = "track" ->
                  {With(doc, "album", Without(WellFormed("track::TrackAlbum", Wire27), "id")),
                   With(doc, "contributors",
                        JArr(<<WellFormed("track::ContributorArtist", Wire27), JNull>>))}
             [] res = "chart" ->
                  {With(doc, "artists",
                        Envelope(<<WellFormed("chart::ChartArtist", Wire27), bad>>)) :
                     bad \in Elements("chart::ChartArtist").bad}
             [] res = "info" ->
                  {With(doc, "offers", JArr(<<With(WellFormed("info::Offer", Wire27), "id", JStr("x"))>>))}
             [] OTHER -> {})

\* documents that match the schema of the record of res but for an element of
\* a list decoded by deserialize_map
MismatchedElement(res) ==
  LET doc == WellFormed(RecordOf(res), Wire27)
  IN CASE res = "album" ->
            {With(doc, "tracks", Envelope(<<bad, WellFormed("album::AlbumTrack", Wire27)>>)) :
               bad \in Elements("album::AlbumTrack").bad}
            \cup {With(doc, "genres", Envelope(<<Without(WellFormed("album::AlbumGenre", Wire27), "name")>>))}
       [] res = "playlist" ->
            {With(doc, "tracks", Envelope(<<WellFormed("playlist::PlaylistTrack", Wire27), JStr("x")>>))}
       [] OTHER -> {}

\* what the network may answer to a request for resource res
Nets(res) ==
  LET T == RecordOf(res)
      doc == WellFormed(T, Wire27)
  IN {NoResponse, Unreadable(200), Response(200, NotJson), Response(500, NotJson),
      Response(200, Json(doc)), Response(404, Json(doc)),
      Response(200, Json(WellFormed(T, Wire4179157801))),
      Response(404, ErrorBody)}
     \cup {Response(200, Json(body)) : body \in Mismatched(res) \cup MismatchedElement(res)}
     \cup (IF res = "album"
           THEN {Response(200, Json(AlbumWithGenre(g.wire))) : g \in GenreIds}
                \cup {Response(200, Json(AlbumWithGenre(JNull))),
                      Response(200, Json(Without(doc, "genre_id")))}
           ELSE {})

\* what the network may answer to the request of a get_full
FullNets ==
  {NoResponse, Response(404, ErrorBody)}
  \cup {Response(200, Json(WellFormed(RecordOf(res), Wire27))) : res \in IdResources}

RECURSIVE SeqsUpTo(_, _)
SeqsUpTo(S, n) ==
  IF n = 0 THEN {<<>>}
  ELSE LET shorter == SeqsUpTo(S, n - 1)
       IN shorter \cup {Append(s, x) : s \in {t \in shorter : Len(t) = n - 1}, x \in S}

ElementTypes == {"album::AlbumGenre", "chart::ChartArtist"}

(***************************************************************************)
(* The state.                                                              *)
(*   api       the facade the caller has built: [made, client]             *)
(*   calls     the number of fetches invoked (get, Api::get_x, get_full)    *)
(*   requests  the number of GET requests issued                           *)
(*   stdout    the number of lines printed                                 *)
(*   last      the last fetch: its entry point, its arguments, what the    *)
(*             network answered, what it did, and whether the fetch before *)
(*             it was the same one (same entry point, same arguments)      *)
(*   de, ret   the argument of a decoder run on its own, and its result    *)
(*   thread    where the caller is in the fetch it is in, statement by      *)
(*             statement: its pc and the locals of the fetch               *)
(*   wire      the URLs of the requests sent whose response has not been   *)
(*             received in full                                            *)
(***************************************************************************)
VARIABLES api, calls, requests, stdout, last, de, ret, thread, wire

vars == <<api, calls, requests, stdout, last, de, ret, thread, wire>>

NoApi == [made |-> FALSE]
NoCall == [entry |-> "none"]
NoRun == [fn |-> "none"]
\* the caller between two fetches
Idle == [pc |-> "idle"]

\* Api::new()
Api_new == [made |-> TRUE, client |-> Client_new]

Init ==
  /\ api = NoApi
  /\ calls = 0
  /\ requests = 0
  /\ stdout = 0
  /\ last = NoCall
  /\ de = NoRun
  /\ ret = NoRun
  /\ thread = Idle
  /\ wire = <<>>

\* a panic ends the caller: nothing runs after a fetch that panicked, nor
\* after Editorial::all()
Running ==
  /\ ret = NoRun
  /\ IF last.entry = "none" THEN TRUE ELSE last.call.ret.st = "ok"

\* let deezer = Api::new();
ApiNew ==
  /\ Running
  /\ ~api.made
  /\ api' = Api_new
  /\ UNCHANGED <<calls, requests, stdout, last, de, ret, thread, wire>>

\* a fetch was made: `on` is the resource (for get_full the type of the shortened
\* record), `arg` the id (for get_full the shortened record, as it is after the
\* call)
Record(entry, on, arg, net, call) ==
  /\ last' = [entry |-> entry, on |-> on, arg |-> arg, net |-> net, call |-> call,
              again |-> /\ last.entry = entry
                        /\ last.on = on
                        /\ last.arg = arg]
  /\ calls' = calls + 1
  /\ requests' = requests + Len(call.sent)
  /\ stdout' = stdout + call.ret.out

\* X::get(id)
Get(res) ==
  /\ Running
  /\ calls < MaxCalls
  /\ \E id \in (IF res \in IdResources THEN Ids ELSE {<<>>}), net \in Nets(res) :
       Record("standalone", res, id, net, StandaloneGet(res, id, net))
  /\ UNCHANGED <<api, de, ret, thread, wire>>

\* a facade that keeps the outcome of its last call and answers the same call
\* from it
ApiGet_cached(res) ==
  /\ Running
  /\ calls < MaxCalls
  /\ api.made
  /\ \E id \in (IF res \in IdResources THEN Ids ELSE {<<>>}), net \in Nets(res) :
       Record("facade", res, id, net,
              IF last.entry = "facade" /\ last.on = res /\ last.arg = id THEN last.call
              ELSE FacadeGet(api, res, id, net))
  /\ UNCHANGED <<api, de, ret, thread, wire>>

\* deezer.get_x(id)
ApiGet(res) ==
  /\ Running
  /\ calls < MaxCalls
  /\ api.made
  /\ \E id \in (IF res \in IdResources THEN Ids ELSE {<<>>}), net \in Nets(res) :
       Record("facade", res, id, net, FacadeGet(api, res, id, net))
  /\ UNCHANGED <<api, de, ret, thread, wire>>

\* r.get_full() on a shortened record r of the record the last fetch returned
GetFull ==
  /\ Running
  /\ calls < MaxCalls
  /\ last.entry # "none"
  /\ \E r \in RefsIn(last.call.ty, last.call.ret.v), net \in FullNets :
       Record("get_full", r.ty, r.rec, net, GetFullOf(r.ty, r.rec, net))
  /\ UNCHANGED <<api, de, ret, thread, wire>>

\* Editorial::all()
All ==
  /\ Running
  /\ ret' = [fn |-> "all", r |-> Editorial_all]
  /\ requests' = requests + Len(ret'.r.sent)
  /\ stdout' = stdout + ret'.r.ret.out
  /\ UNCHANGED <<api, calls, last, de, thread, wire>>

Next ==
  \/ ApiNew
  \/ \E res \in Resources : Get(res)
  \/ \E res \in Resources : ApiGet(res)
  \/ GetFull
  \/ All

Spec == Init /\ [][Next]_vars

(***************************************************************************)
(* The list decoders on their own: de is an element type and the elements  *)
(* of a data array, ret what a decoder made of {"data": [elements]}.       *)
(***************************************************************************)
\* the chart document whose artists member is the envelope, and the album
\* document whose genres member is
DocumentWith(T, envelope) ==
  IF T = "chart::ChartArtist"
  THEN [ty |-> "chart::Chart", doc |-> With(WellFormed("chart::Chart", Wire27), "artists", envelope)]
  ELSE [ty |-> "album::Album", doc |-> With(WellFormed("album::Album", Wire27), "genres", envelope)]

InitDecoders ==
  /\ api = NoApi
  /\ calls = 0
  /\ requests = 0
  /\ stdout = 0
  /\ last = NoCall
  /\ de \in UNION {{[ty |-> T, elems |-> s] :
                       s \in SeqsUpTo(Elements(T).good \cup Elements(T).bad, MaxLen)} :
                     T \in ElementTypes}
  /\ ret = NoRun
  /\ thread = Idle
  /\ wire = <<>>

\* deserialize_map::<T, _>({"data": elems})
RunMap ==
  /\ ret = NoRun
  /\ ret' = [fn |-> "deserialize_map", r |-> deserialize_map(Envelope(de.elems),
                                   from_values(StructTy(de.ty), data_array(Envelope(de.elems))))]
  /\ stdout' = stdout + ret'.r.out
  /\ UNCHANGED <<api, calls, requests, last, de, thread, wire>>

\* deserialize_chart::<T, _>({"data": elems})
RunChart ==
  /\ ret = NoRun
  /\ ret' = [fn |-> "deserialize_chart", r |-> deserialize_chart(Envelope(de.elems),
                                     from_values(StructTy(de.ty), data_array(Envelope(de.elems))))]
  /\ stdout' = stdout + ret'.r.out
  /\ UNCHANGED <<api, calls, requests, last, de, thread, wire>>

\* Chart::new / Album::new of a document that has {"data": elems} as a member
RunNew ==
  /\ ret = NoRun
  /\ LET d == DocumentWith(de.ty, Envelope(de.elems))
     IN ret' = [fn |-> "new", ty |-> d.ty,
                r |-> IF d.ty = "chart::Chart" THEN Chart_new(Json(d.doc)) ELSE Album_new(Json(d.doc))]
  /\ stdout' = stdout + ret'.r.out
  /\ UNCHANGED <<api, calls, requests, last, de, thread, wire>>

NextDecoders ==
  \/ RunMap
  \/ RunChart
  \/ RunNew

SpecDecoders == InitDecoders /\ [][NextDecoders]_vars


(***************************************************************************)
(* The record decoders on their own: de is a struct and a document, ret    *)
(* what from_str, resp. a fetch answered with the document, made of it.    *)
(***************************************************************************)
\* the resource whose fetch returns a record of type T
ResourceOf(T) == CHOOSE res \in Resources : RecordOf(res) = T

ResourceRecords == {RecordOf(res) : res \in Resources}

\* the ids a fetch is made with: 27, 4179157801, 0, 2^16 and 2^32 - 1
RecordIds == Ids \cup {U32(0), <<0, 1>>, <<65535, 65535>>}

\* the ids a fetch of res is made with (none for a singleton)
IdsOf(res) == IF res \in IdResources THEN RecordIds ELSE {<<>>}

\* the struct has a field `id` of an unsigned integer type
NumericId(T) ==
  \E n \in 1..Len(FieldsOf(T)) :
    /\ FieldsOf(T)[n].name = "id"
    /\ FieldsOf(T)[n].wrap = ""
    /\ FieldsOf(T)[n].base \in {"u32", "u64"}

\* the well-formed documents of every struct
WellFormedInputs ==
  {[ty |-> T, doc |-> WellFormed(T, idj), case |-> "well-formed"] :
     T \in Structs, idj \in {Wire27, Wire4179157801}}

\* a field a document must have: neither an Option (without a decoder of its
\* own) nor #[serde(default)]
Required(f) == ~f.dflt /\ ~(f.wrap = "Option" /\ f.with = "")

\* a value of another type than the field's
WrongValue(f) ==
  IF f.with = "" /\ f.wrap # "Vec" /\ f.base \in {"u32", "u64", "i32", "f32"}
  THEN JStr("1") ELSE JNum(1)

\* for every struct and every required field of it, the documents without
\* the field and the documents with a null or a value of another type for it
RequiredFieldInputs ==
  UNION {
    LET fs == FieldsOf(T)
        doc == WellFormed(T, Wire27)
    IN UNION {
         {[ty |-> T, doc |-> Without(doc, fs[n].key), case |-> "lacks", field |-> fs[n].key],
          [ty |-> T, doc |-> With(doc, fs[n].key, JNull), case |-> "wrong", field |-> fs[n].key],
          [ty |-> T, doc |-> With(doc, fs[n].key, WrongValue(fs[n])), case |-> "wrong",
           field |-> fs[n].key]}
         : n \in {n \in 1..Len(fs) : Required(fs[n])} }
    : T \in Structs }

\* the numbers a document's id is tried with, around the ends of the range
\* of a u32: as written, whether a u32 can hold it, and the u32 if so
IdWires ==
  {[wire |-> JNum(-1), fits |-> FALSE],
   \* 27 - 2^32
   [wire |-> JNumber(TRUE, <<4, 2, 9, 4, 9, 6, 7, 2, 6, 9>>, FALSE), fits |-> FALSE],
   [wire |-> JNum(0), fits |-> TRUE, val |-> <<0, 0>>],
   \* 2^16
   [wire |-> JNum(65536), fits |-> TRUE, val |-> <<0, 1>>],
   \* 2^32 - 1
   [wire |-> JNumber(FALSE, <<4, 2, 9, 4, 9, 6, 7, 2, 9, 5>>, FALSE), fits |-> TRUE,
    val |-> <<65535, 65535>>],
   \* 2^32
   [wire |-> JNumber(FALSE, <<4, 2, 9, 4, 9, 6, 7, 2, 9, 6>>, FALSE), fits |-> FALSE],
   \* 2^32 + 27
   [wire |-> JNumber(FALSE, <<4, 2, 9, 4, 9, 6, 7, 3, 2, 3>>, FALSE), fits |-> FALSE],
   \* 2^64 + 27
   [wire |-> JNumber(FALSE, <<1, 8, 4, 4, 6, 7, 4, 4, 0, 7, 3, 7, 0, 9, 5, 5, 1, 6, 4, 3>>, FALSE),
    fits |-> FALSE]}

\* for every struct with a numeric id, its document with each of these ids
IdInputs ==
  {[ty |-> T, doc |-> With(WellFormed(T, Wire27), "id", w.wire), case |-> "id", wire |-> w] :
     T \in {T \in Structs : NumericId(T)}, w \in IdWires}

\* for every list decoded by deserialize_map, the document of its struct with
\* two elements in the list: one of id 27 and one with each of these ids
ElementInputs ==
  UNION {
    LET fs == FieldsOf(T)
    IN UNION {
         {[ty |-> T,
           doc |-> With(WellFormed(T, Wire27), fs[n].key,
                        Envelope(<<WellFormed(fs[n].of, Wire27),
                                   With(WellFormed(fs[n].of, Wire27), "id", w.wire)>>)),
           case |-> "element", field |-> fs[n].name, wire |-> w] : w \in IdWires}
         : n \in {n \in 1..Len(fs) : fs[n].with = "deserialize_map"} }
    : T \in Structs }

\* the fields of T that are #[serde(default)] and not an Option
Defaulted(T) ==
  {FieldsOf(T)[n] : n \in {n \in 1..Len(FieldsOf(T)) :
                             FieldsOf(T)[n].dflt /\ FieldsOf(T)[n].wrap = ""}}

\* the document without the members `keys`
WithoutAll(doc, keys) == JObj(SelectSeq(doc.v, LAMBDA m : m[1] \notin keys))

\* for every struct, its document without each subset of its defaulted fields
DefaultedInputs ==
  UNION {
    {[ty |-> T, doc |-> WithoutAll(WellFormed(T, Wire27), missing), case |-> "defaulted",
      missing |-> missing] : missing \in SUBSET {f.key : f \in Defaulted(T)}}
    : T \in {T \in Structs : Defaulted(T) # {}} }

\* ids as written and as the u32 they denote
IdPairs ==
  {[wire |-> JNum(7), val |-> U32(7)],
   [wire |-> JNum(912486), val |-> U32(912486)],
   [wire |-> Wire4179157801, val |-> Id4179157801]}

\* the Track documents of id t with the nested artist of id a and the nested
\* album of id b
TrackInputs ==
  {[ty |-> "track::Track",
    doc |-> With(With(WellFormed("track::Track", t.wire),
                      "artist", WellFormed("track::TrackArtist", a.wire)),
                 "album", WellFormed("track::TrackAlbum", b.wire)),
    case |-> "track", t |-> t.val, a |-> a.val, b |-> b.val] :
     t \in IdPairs, a \in IdPairs, b \in IdPairs}

\* for every list decoded by deserialize_map or deserialize_chart, the
\* document of its struct with three elements in the list: one of id 27, one
\* that does not decode, and one of id 4179157801
ListInputs ==
  UNION {
    LET fs == FieldsOf(T)
    IN UNION {
         {[ty |-> T,
           doc |-> With(WellFormed(T, Wire27), fs[n].key,
                        Envelope(<<WellFormed(fs[n].of, Wire27), bad,
                                   WellFormed(fs[n].of, Wire4179157801)>>)),
           case |-> "list", field |-> fs[n].name, with |-> fs[n].with]
            : bad \in Elements(fs[n].of).bad}
         : n \in {n \in 1..Len(fs) : fs[n].with \in {"deserialize_map", "deserialize_chart"}} }
    : T \in Structs }

\* a field that holds a string or an unsigned number, plain or in an Option
Scalar(f) == f.with = "" /\ f.wrap \in {"", "Option"} /\ f.base \in {"u32", "String"}

\* the document of T with 0 for every number and "" for every string
Zeroed(T) ==
  LET doc == WellFormed(T, Wire27)
      fs == FieldsOf(T)
      Val(key) == LET f == fs[CHOOSE n \in 1..Len(fs) : fs[n].key = key]
                  IN IF f.base = "u32" THEN JNum(0) ELSE JStr("")
  IN JObj(Tuple([n \in 1..Len(doc.v) |->
                   IF \E m \in 1..Len(fs) : fs[m].key = doc.v[n][1] /\ Scalar(fs[m])
                   THEN <<doc.v[n][1], Val(doc.v[n][1])>> ELSE doc.v[n]]))

\* for every struct, that document: the values a record could use for "none"
ZeroInputs == {[ty |-> T, doc |-> Zeroed(T), case |-> "zeros"] : T \in Structs}

\* bound: the alternatives nested in an album document
MaxDepth == 2

RECURSIVE AlbumChain(_, _, _, _)
\* the album document, made of the well-formed one, of id 27 + k and genre_id
\* gs[1] whose alternative is the album document of id 27 + k + 1 and genre_id
\* gs[2], and so on; the last album has no alternative member, or null for it
AlbumChain(wellformed, gs, end, k) ==
  LET album == With(With(wellformed, "id", JNum(27 + k)), "genre_id", JNum(gs[1]))
  IN IF Len(gs) = 1
     THEN (IF end = "null" THEN With(album, "alternative", JNull) ELSE album)
     ELSE With(album, "alternative", AlbumChain(wellformed, Tail(gs), end, k + 1))

\* the album documents with up to MaxDepth nested alternatives, each album
\* with the genre_id -1 or 5
ChainInputs(album) ==
  {[ty |-> "album::Album", doc |-> AlbumChain(album, gs, end, 0), case |-> "chain",
    genres |-> gs, end |-> end] :
     gs \in SeqsUpTo({-1, 5}, MaxDepth + 1) \ {<<>>}, end \in {"none", "null"}}

\* the album documents with each of GenreIds as genre_id, with null for it,
\* and without it
GenreInputs(album) ==
  {[ty |-> "album::Album", doc |-> With(album, "genre_id", g.wire), case |-> "genre",
    given |-> "number", genre |-> g.val] : g \in GenreIds}
  \cup {[ty |-> "album::Album", doc |-> With(album, "genre_id", JNull), case |-> "genre",
          given |-> "null", genre |-> 0],
         [ty |-> "album::Album", doc |-> Without(album, "genre_id"), case |-> "genre",
          given |-> "missing", genre |-> 0]}

\* elements made of the decodable one e that do not decode: no id, the id
\* -1, null
Undecodables(e) == {Without(e, "id"), With(e, "id", JNum(-1)), JNull}

\* the info documents whose offers are an array of up to MaxLen elements,
\* the two of `good` and Undecodables, and the one whose offers are the
\* elements `good` in a {"data": [...]} envelope
OfferInputs(info, good) ==
  {[ty |-> "info::Info", doc |-> With(info, "offers", JArr(elems)), case |-> "offers",
    elems |-> elems] :
     elems \in SeqsUpTo({good[1], good[2]} \cup Undecodables(good[1]), MaxLen)}
  \cup {[ty |-> "info::Info", doc |-> With(info, "offers", Envelope(good)),
         case |-> "offers", key |-> "data", elems |-> good]}

\* the values of a list field that are not {"data": [...]}
Shapes == {"empty object", "other key", "data number", "data null", "data object", "array",
           "null", "number"}

\* the value of that shape, e being an element of the list
Shaped(shape, e) ==
  CASE shape = "empty object" -> JObj(<<>>)
    [] shape = "other key" -> JObj(<< <<"items", JArr(<<e>>)>> >>)
    [] shape = "data number" -> JObj(<< <<"data", JNum(5)>> >>)
    [] shape = "data null" -> JObj(<< <<"data", JNull>> >>)
    [] shape = "data object" -> JObj(<< <<"data", e>> >>)
    [] shape = "array" -> JArr(<<e, e>>)
    [] shape = "null" -> JNull
    [] shape = "number" -> JNum(5)

\* for every list decoded by deserialize_map or deserialize_chart, the
\* document of its struct with a value of each of the Shapes for the list;
\* wf[T] is the well-formed document of T
EnvelopeInputs(wf) ==
  UNION {
    LET fs == FieldsOf(T)
    IN UNION {
         {[ty |-> T, doc |-> With(wf[T][1], fs[n].key, Shaped(shape, wf[fs[n].of][1])),
           case |-> "envelope", field |-> fs[n].name, with |-> fs[n].with, shape |-> shape]
            : shape \in Shapes}
         : n \in {n \in 1..Len(fs) : fs[n].with \in {"deserialize_map", "deserialize_chart"}} }
    : T \in Structs }

\* the well-formed documents of every struct: wf[T][1] of id 27, wf[T][2] of
\* id 4179157801
WellFormedDocs ==
  [T \in Structs |->
     [i \in 1..2 |-> WellFormed(T, IF i = 1 THEN Wire27 ELSE Wire4179157801)]]

\* documents made of the well-formed ones: chains of alternative albums,
\* genre ids, offers, and list values of other shapes
MadeOf(wf) ==
  ChainInputs(wf["album::Album"][1]) \cup GenreInputs(wf["album::Album"][1])
    \cup OfferInputs(wf["info::Info"][1], <<wf["info::Offer"][1], wf["info::Offer"][2]>>)
    \cup EnvelopeInputs(wf)

RecordInputs ==
  WellFormedInputs \cup RequiredFieldInputs \cup IdInputs \cup ElementInputs \cup DefaultedInputs
    \cup TrackInputs \cup ListInputs \cup ZeroInputs \cup MadeOf(WellFormedDocs)

InitRecords ==
  /\ api = NoApi
  /\ calls = 0
  /\ requests = 0
  /\ stdout = 0
  /\ last = NoCall
  /\ de \in RecordInputs
  /\ ret = NoRun
  /\ thread = Idle
  /\ wire = <<>>

\* serde_json::from_str::<T>(document)
RunFromStr ==
  /\ ret = NoRun
  /\ ret' = [fn |-> "from_str", r |-> from_str(de.ty, Json(de.doc))]
  /\ stdout' = stdout + ret'.r.out
  /\ UNCHANGED <<api, calls, requests, last, de, thread, wire>>

\* X::get(id), resp. Api::new().get_x(id), answered with the document
RunGet(entry) ==
  /\ ret = NoRun
  /\ de.ty \in ResourceRecords
  /\ \E id \in IdsOf(ResourceOf(de.ty)) :
       LET res == ResourceOf(de.ty)
           net == Response(200, Json(de.doc))
           call == IF entry = "standalone" THEN StandaloneGet(res, id, net)
                   ELSE FacadeGet(Api_new, res, id, net)
       IN /\ ret' = [fn |-> "get", entry |-> entry, id |-> id, r |-> call]
          /\ calls' = calls + 1
          /\ requests' = requests + Len(ret'.r.sent)
          /\ stdout' = stdout + ret'.r.ret.out
  /\ api' = (IF entry = "facade" THEN Api_new ELSE api)
  /\ UNCHANGED <<last, de, thread, wire>>

\* the same fetch once more, answered with the same document
RunGetAgain ==
  /\ ret # NoRun
  /\ ret.fn = "get"
  /\ ret.r.ret.st = "ok"
  /\ LET res == ResourceOf(de.ty)
         net == Response(200, Json(de.doc))
         call == IF ret.entry = "standalone" THEN StandaloneGet(res, ret.id, net)
                 ELSE FacadeGet(api, res, ret.id, net)
     IN /\ ret' = [fn |-> "again", entry |-> ret.entry, id |-> ret.id, first |-> ret.r, r |-> call]
        /\ calls' = calls + 1
        /\ requests' = requests + Len(ret'.r.sent)
        /\ stdout' = stdout + ret'.r.ret.out
  /\ UNCHANGED <<api, last, de, thread, wire>>

NextRecords ==
  \/ RunFromStr
  \/ \E entry \in {"standalone", "facade"} : RunGet(entry)
  \/ RunGetAgain

SpecRecords == InitRecords /\ [][NextRecords]_vars
(***************************************************************************)
(* A fetch statement by statement.  Every fetcher is the same four         *)
(* statements: build the URL, send the request and wait for the response   *)
(* (unwrap), read the body (unwrap), decode it (X::new).  The caller is    *)
(* one thread: it is in one fetch at a time and a panic ends it.           *)
(***************************************************************************)
\* get_x_api(id), resp. get_x_api()
ApiOf(res, id) ==
  CASE res = "track" -> get_track_api(id)
    [] res = "artist" -> get_artist_api(id)
    [] res = "album" -> get_album_api(id)
    [] res = "genre" -> get_genre_api(id)
    [] res = "comment" -> get_comment_api(id)
    [] res = "user" -> get_user_api(id)
    [] res = "playlist" -> get_playlist_api(id)
    [] res = "editorial" -> get_editorial_api(id)
    [] res = "radio" -> get_radio_api(id)
    [] res = "info" -> get_info_api
    [] res = "chart" -> get_chart_api
    [] res = "options" -> get_options_api

\* X::new(&json)
NewOf(res, json) ==
  CASE res = "track" -> Track_new(json)
    [] res = "artist" -> Artist_new(json)
    [] res = "album" -> Album_new(json)
    [] res = "genre" -> Genre_new(json)
    [] res = "comment" -> Comment_new(json)
    [] res = "user" -> User_new(json)
    [] res = "playlist" -> Playlist_new(json)
    [] res = "editorial" -> Editorial_new(json)
    [] res = "radio" -> Radio_new(json)
    [] res = "info" -> Info_new(json)
    [] res = "chart" -> Chart_new(json)
    [] res = "options" -> Options_new(json)

\* the resource get_full of a shortened record of type T fetches
FullOf(T) ==
  CASE T = "album::ContributorArtist" -> "artist"
    [] T = "album::AlbumArtist" -> "artist"
    [] T = "album::AlbumTrackArtist" -> "artist"
    [] T = "album::AlbumTrack" -> "track"
    [] T = "album::AlbumGenre" -> "genre"
    [] T = "chart::ChartTrack" -> "track"
    [] T = "chart::ChartTrackArtist" -> "artist"
    [] T = "chart::ChartTrackAlbum" -> "album"
    [] T = "chart::ChartAlbum" -> "album"
    [] T = "chart::ChartAlbumArtist" -> "artist"
    [] T = "chart::ChartArtist" -> "artist"
    [] T = "chart::ChartPlaylist" -> "playlist"
    [] T = "chart::ChartPlaylistUser" -> "user"
    [] T = "comment::CommentAuthor" -> "user"
    [] T = "playlist::PlaylistUser" -> "user"
    [] T = "playlist::PlaylistTrack" -> "track"
    [] T = "playlist::PlaylistTrackArtist" -> "artist"
    [] T = "playlist::PlaylistTrackAlbum" -> "album"
    [] T = "track::ContributorArtist" -> "artist"
    [] T = "track::TrackArtist" -> "artist"
    [] T = "track::TrackAlbum" -> "album"

\* what the network may answer to a request for resource res, tried here
StepNets(res) ==
  {NoResponse, Unreadable(200), Response(200, NotJson), Response(404, ErrorBody),
   Response(200, Json(WellFormed(RecordOf(res), Wire27)))}

InitSteps ==
  /\ api = NoApi
  /\ calls = 0
  /\ requests = 0
  /\ stdout = 0
  /\ last = NoCall
  /\ de = NoRun
  /\ ret = NoRun
  /\ thread = Idle
  /\ wire = <<>>

\* let deezer = Api::new();
StepApiNew ==
  /\ thread.pc = "idle"
  /\ ~api.made
  /\ api' = Api_new
  /\ UNCHANGED <<calls, requests, stdout, last, de, ret, thread, wire>>

\* a fetch that does not block: the caller may enter the next one while the
\* request of this one is in flight
Invoke_async(entry, res) ==
  /\ thread.pc \in {"idle", "await"}
  /\ calls < MaxCalls
  /\ entry = "facade" => api.made
  /\ \E id \in (IF res \in IdResources THEN {Id27} ELSE {<<>>}) :
       thread' = [pc |-> "send", entry |-> entry, on |-> res, arg |-> id, res |-> res,
                  url |-> ApiOf(res, id),
                  client |-> IF entry = "facade" THEN api.client ELSE Client_new]
  /\ calls' = calls + 1
  /\ UNCHANGED <<api, requests, stdout, last, de, ret, wire>>

\* the caller enters X::get(id), resp. deezer.get_x(id): the URL is built
Invoke(entry, res) ==
  /\ thread.pc = "idle"
  /\ calls < MaxCalls
  /\ entry = "facade" => api.made
  /\ \E id \in (IF res \in IdResources THEN {Id27} ELSE {<<>>}) :
       thread' = [pc |-> "send", entry |-> entry, on |-> res, arg |-> id, res |-> res,
                  url |-> ApiOf(res, id),
                  client |-> IF entry = "facade" THEN api.client ELSE Client_new]
  /\ calls' = calls + 1
  /\ UNCHANGED <<api, requests, stdout, last, de, ret, wire>>

\* the caller enters r.get_full() on a shortened record r of the record the
\* last fetch returned: X::get(self.id)
InvokeFull ==
  /\ thread.pc = "idle"
  /\ calls < MaxCalls
  /\ last.entry # "none"
  /\ \E r \in RefsIn(last.call.ty, last.call.ret.v) :
       thread' = [pc |-> "send", entry |-> "get_full", on |-> r.ty, arg |-> r.rec,
                  res |-> FullOf(r.ty), url |-> ApiOf(FullOf(r.ty), r.rec.id),
                  client |-> Client_new]
  /\ calls' = calls + 1
  /\ UNCHANGED <<api, requests, stdout, last, de, ret, wire>>

\* the fetch has ended: `last` is what it did, and the caller goes on after a
\* return and is no more after a panic
End(net, result) ==
  /\ last' = [entry |-> thread.entry, on |-> thread.on, arg |-> thread.arg, net |-> net,
              call |-> Call(RecordOf(thread.res), <<thread.url>>, result),
              again |-> /\ last.entry = thread.entry
                        /\ last.on = thread.on
                        /\ last.arg = thread.arg,
              seq |-> calls]
  /\ thread' = IF result.st = "ok" THEN Idle ELSE [pc |-> "aborted"]
  /\ stdout' = stdout + result.out

\* client.get(url).send(), resp. reqwest::get(url): the request goes out and
\* the caller blocks
Send ==
  /\ thread.pc = "send"
  /\ wire' = Append(wire, thread.url)
  /\ requests' = requests + 1
  /\ thread' = [thread EXCEPT !.pc = "await"]
  /\ UNCHANGED <<api, calls, stdout, last, de, ret>>

\* the call returns: Ok(response), or an Err that .unwrap() turns into a panic
Respond ==
  /\ thread.pc = "await"
  /\ wire # <<>>
  /\ \E net \in StepNets(thread.res) :
       LET resp == send(thread.client, Head(wire), net)
       IN IF resp.st # "ok"
          THEN /\ End(net, Panic(0))
               /\ wire' = Tail(wire)
          ELSE /\ thread' = [pc |-> "text", entry |-> thread.entry, on |-> thread.on,
                             arg |-> thread.arg, res |-> thread.res, url |-> thread.url,
                             net |-> net, resp |-> resp.v]
               /\ UNCHANGED <<stdout, last, wire>>
  /\ UNCHANGED <<api, calls, requests, de, ret>>

\* resp.text().unwrap(): the body is read to its end, or the panic
ReadBody ==
  /\ thread.pc = "text"
  /\ LET json == text(thread.resp)
     IN IF json.st # "ok"
        THEN End(thread.net, Panic(0))
        ELSE /\ thread' = [pc |-> "new", entry |-> thread.entry, on |-> thread.on,
                           arg |-> thread.arg, res |-> thread.res, url |-> thread.url,
                           net |-> thread.net, json |-> json.v]
             /\ UNCHANGED <<stdout, last>>
  /\ wire' = Tail(wire)
  /\ UNCHANGED <<api, calls, requests, de, ret>>

\* a fetcher that returns what it has when the document does not decode: the
\* record with no field
Decode_best_effort ==
  /\ thread.pc = "new"
  /\ LET r == NewOf(thread.res, thread.json)
     IN End(thread.net, IF r.st = "ok" THEN r ELSE Ok(<<>>, r.out))
  /\ UNCHANGED <<api, calls, requests, de, ret, wire>>

\* Self::new(&json): the record is returned, or the panic of its unwrap
Decode ==
  /\ thread.pc = "new"
  /\ End(thread.net, NewOf(thread.res, thread.json))
  /\ UNCHANGED <<api, calls, requests, de, ret, wire>>

NextSteps ==
  \/ StepApiNew
  \/ \E entry \in {"standalone", "facade"}, res \in Resources : Invoke(entry, res)
  \/ InvokeFull
  \/ Send
  \/ Respond
  \/ ReadBody
  \/ Decode

SpecSteps == InitSteps /\ [][NextSteps]_vars

\* Decode seen on the caller alone: from Self::new(&json) it goes on, with the
\* record or with the panic
Returns == thread.pc = "new" /\ thread' \in {Idle, [pc |-> "aborted"]}

\* the blocking calls return: the request goes out, the network answers or
\* fails, the body ends or breaks off, and the decoder is a terminating
\* computation
FairSteps ==
  /\ SpecSteps
  /\ WF_vars(Send)
  /\ WF_vars(Respond)
  /\ WF_vars(ReadBody)
  /\ WF_thread(Returns)
(***************************************************************************)
(* One facade shared by several threads.  The methods of Api take &self    *)
(* and struct Api has one field, the client; what a fetch holds (the URL,  *)
(* the response, the json) is in locals of the method, so it is per        *)
(* thread.  wire[t] is the request of thread t and what the remote system  *)
(* answers to it.                                                          *)
(***************************************************************************)
\* bound: the threads that share the facade
MaxThreads == 2

Threads == 1..MaxThreads

\* the resources fetched here: one with an id and one without
ThreadResources == {"album", "chart"}

NoRequest == [sent |-> FALSE]

\* what the network may answer to the request for (res, id)
ThreadNets(res, id) ==
  {NoResponse, Unreadable(200), Response(200, NotJson),
   Response(200, Json(WellFormed(RecordOf(res), IF id = Id27 THEN Wire27 ELSE Wire4179157801)))}

InitThreads ==
  /\ api = Api_new
  /\ calls = 0
  /\ requests = 0
  /\ stdout = 0
  /\ last = NoCall
  /\ de = NoRun
  /\ ret = NoRun
  /\ thread = [t \in Threads |-> Idle]
  /\ wire = [t \in Threads |-> NoRequest]

\* thread t enters deezer.get_x(id), its one fetch: the URL is built
ThreadInvoke(t) ==
  /\ thread[t].pc = "idle"
  /\ \E res \in ThreadResources :
       \E id \in (IF res \in IdResources THEN Ids ELSE {<<>>}) :
         thread' = [thread EXCEPT ![t] = [pc |-> "send", res |-> res, arg |-> id,
                                          url |-> ApiOf(res, id), client |-> api.client]]
  /\ calls' = calls + 1
  /\ UNCHANGED <<api, requests, stdout, last, de, ret, wire>>

\* self.client.get(url).send(): the request of t goes out and t blocks; the
\* remote system will answer it, or not
ThreadSend(t) ==
  /\ thread[t].pc = "send"
  /\ \E net \in ThreadNets(thread[t].res, thread[t].arg) :
       wire' = [wire EXCEPT ![t] = [sent |-> TRUE, url |-> thread[t].url, answer |-> net]]
  /\ requests' = requests + 1
  /\ thread' = [thread EXCEPT ![t].pc = "await"]
  /\ UNCHANGED <<api, calls, stdout, last, de, ret>>

\* thread t has ended its fetch, with a record or with a panic that ends t
ThreadEnd(t, result) ==
  /\ thread' = [thread EXCEPT ![t] = [pc |-> IF result.st = "ok" THEN "done" ELSE "aborted",
                                      res |-> thread[t].res, arg |-> thread[t].arg,
                                      result |-> result]]
  /\ stdout' = stdout + result.out

\* a client that hands a thread the response to any of the requests in flight
ThreadRespond_any(t) ==
  /\ thread[t].pc = "await"
  /\ \E u \in Threads :
       /\ wire[u].sent
       /\ LET resp == send(thread[t].client, thread[t].url, wire[u].answer)
          IN IF resp.st # "ok"
             THEN ThreadEnd(t, Panic(0))
             ELSE /\ thread' = [thread EXCEPT ![t] = [pc |-> "text", res |-> thread[t].res,
                                                      arg |-> thread[t].arg, resp |-> resp.v]]
                  /\ UNCHANGED stdout
  /\ UNCHANGED <<api, calls, requests, last, de, ret, wire>>

\* send() returns in t: Ok(the response to the request of t), or an Err that
\* .unwrap() turns into a panic
ThreadRespond(t) ==
  /\ thread[t].pc = "await"
  /\ LET resp == send(thread[t].client, thread[t].url, wire[t].answer)
     IN IF resp.st # "ok"
        THEN ThreadEnd(t, Panic(0))
        ELSE /\ thread' = [thread EXCEPT ![t] = [pc |-> "text", res |-> thread[t].res,
                                                 arg |-> thread[t].arg, resp |-> resp.v]]
             /\ UNCHANGED stdout
  /\ UNCHANGED <<api, calls, requests, last, de, ret, wire>>

\* .text().unwrap() in t
ThreadReadBody(t) ==
  /\ thread[t].pc = "text"
  /\ LET json == text(thread[t].resp)
     IN IF json.st # "ok"
        THEN ThreadEnd(t, Panic(0))
        ELSE /\ thread' = [thread EXCEPT ![t] = [pc |-> "new", res |-> thread[t].res,
                                                 arg |-> thread[t].arg, json |-> json.v]]
             /\ UNCHANGED stdout
  /\ UNCHANGED <<api, calls, requests, last, de, ret, wire>>

\* X::new(&json) in t
ThreadDecode(t) ==
  /\ thread[t].pc = "new"
  /\ ThreadEnd(t, NewOf(thread[t].res, thread[t].json))
  /\ UNCHANGED <<api, calls, requests, last, de, ret, wire>>

NextThreads ==
  \E t \in Threads :
    \/ ThreadInvoke(t)
    \/ ThreadSend(t)
    \/ ThreadRespond(t)
    \/ ThreadReadBody(t)
    \/ ThreadDecode(t)

SpecThreads == InitThreads /\ [][NextThreads]_vars

(***************************************************************************)
(* Properties of the list decoders (specification SpecDecoders).           *)
(***************************************************************************)
\* the elements of de that decode, in order
Decodable == SelectSeq(de.elems, LAMBDA e : e \in Elements(de.ty).good)

AllDecode == Decodable = de.elems

\* the id a decodable element carries on the wire, as the u32 it denotes
IdOf(e) == IF e = WellFormed(de.ty, Wire27) THEN Id27 ELSE Id4179157801

\* the i-th record of the sequence rs is the decode of the element e
IsDecodeOf(rs, i, e) ==
  /\ rs[i] = from_value(StructTy(de.ty), e).v
  /\ rs[i].id = IdOf(e)

\* C1: when every element of {"data": [e1..en]} decodes, deserialize_map and
\* deserialize_chart both return Ok of exactly n records, the i-th being the
\* decode of ei
C1_OrderPreserved ==
  (ret.fn \in {"deserialize_map", "deserialize_chart"} /\ AllDecode) =>
    /\ ret.r.st = "ok"
    /\ Len(ret.r.v) = Len(de.elems)
    /\ \A i \in 1..Len(de.elems) : IsDecodeOf(ret.r.v, i, de.elems[i])

\* three decodable elements, not all the same, have gone through deserialize_chart
C1_Witness ==
  /\ ret.fn = "deserialize_chart"
  /\ AllDecode
  /\ Len(de.elems) = MaxLen
  /\ de.elems[1] # de.elems[2]
  /\ ret.r.st = "ok"
  /\ Len(ret.r.v) = MaxLen

\* C2: deserialize_map never fails on an undecodable element: it returns Ok of
\* the decodes of the decodable elements, in order, so its length is n minus
\* the number of undecodable elements; the same holds for the genres of an
\* album document
C2_LenientSubsequence ==
  /\ ret.fn = "deserialize_map" =>
       /\ ret.r.st = "ok"
       /\ Len(ret.r.v) = Len(Decodable)
       /\ \A i \in 1..Len(Decodable) : IsDecodeOf(ret.r.v, i, Decodable[i])
  /\ (ret.fn = "new" /\ ret.ty = "album::Album") =>
       /\ ret.r.st = "ok"
       /\ Len(ret.r.v.genres) = Len(Decodable)
       /\ \A i \in 1..Len(Decodable) : IsDecodeOf(ret.r.v.genres, i, Decodable[i])

\* deserialize_map has run on [good, bad, good] and returned two records
C2_Witness ==
  /\ ret.fn = "deserialize_map"
  /\ Len(de.elems) = 3
  /\ de.elems[1] \in Elements(de.ty).good
  /\ de.elems[2] \in Elements(de.ty).bad
  /\ de.elems[3] \in Elements(de.ty).good
  /\ ret.r.st = "ok"
  /\ Len(ret.r.v) = 2

\* C3: if an element of the data array does not decode, deserialize_chart and
\* the decode of the chart document around it end in a panic and no sequence
\* is produced; when they succeed the sequence has the length of the array
C3_StrictTerminal ==
  /\ ret.fn = "deserialize_chart" =>
       IF AllDecode THEN ret.r.st = "ok" /\ Len(ret.r.v) = Len(de.elems)
       ELSE ret.r.st = "panic" /\ "v" \notin DOMAIN ret.r
  /\ (ret.fn = "new" /\ ret.ty = "chart::Chart") =>
       IF AllDecode THEN ret.r.st = "ok" /\ Len(ret.r.v.artists) = Len(de.elems)
       ELSE ret.r.st = "panic" /\ "v" \notin DOMAIN ret.r

\* Chart::new has run on a chart whose artists are [good, bad, ...]
C3_Witness ==
  /\ ret.fn = "new"
  /\ ret.ty = "chart::Chart"
  /\ Len(de.elems) >= 2
  /\ de.elems[1] \in Elements(de.ty).good
  /\ de.elems[2] \in Elements(de.ty).bad
  /\ ret.r.st = "panic"

(***************************************************************************)
(* Properties of the fetches (specification Spec).                         *)
(***************************************************************************)
\* the last operation was X::get or Api::get_x
Fetched == last.entry \in {"standalone", "facade"}

\* the response came and its body is the JSON document doc
Answered(doc) == last.net.transport /\ last.net.readable /\ last.net.text = Json(doc)

\* C4: an album fetched by Album::get or Api::get_album has genre_id None when
\* the document says -1 and Some(v) when it says any other 32-bit value v
C4_GenreId ==
  \A g \in GenreIds :
    (Fetched /\ last.on = "album" /\ Answered(AlbumWithGenre(g.wire))) =>
      /\ last.call.ret.st = "ok"
      /\ last.call.ret.v.genre_id = (IF g.val = -1 THEN None ELSE Some(g.val))

\* Api::get_album has returned an album whose document says "genre_id": -1
C4_Witness ==
  /\ last.entry = "facade"
  /\ last.on = "album"
  /\ Answered(AlbumWithGenre(JNum(-1)))
  /\ last.call.ret.st = "ok"
  /\ last.call.ret.v.genre_id = None

\* no response, a body that cannot be read, or a body that is not JSON
NoDocument == ~last.net.transport \/ ~last.net.readable \/ ~last.net.text.json

\* the body is a JSON document of the set docs
AnsweredOneOf(docs) ==
  /\ last.net.transport
  /\ last.net.readable
  /\ last.net.text.json
  /\ last.net.text.value \in docs

\* C5: a fetch aborts the caller (it returns neither a record nor an error
\* value) when the transport fails, the body cannot be read, the body is not
\* JSON, or the body does not match the record schema anywhere outside an
\* element of a list decoded by deserialize_map
C5_FatalFailures ==
  (Fetched /\ (NoDocument \/ AnsweredOneOf(Mismatched(last.on)))) =>
    last.call.ret.st = "panic"

\* Api::get_x has aborted on a document with a field of the wrong type
C5_Witness ==
  /\ last.entry = "facade"
  /\ AnsweredOneOf({With(WellFormed(RecordOf(last.on), Wire27),
                         FirstRequiredKey(RecordOf(last.on)), JNull)})
  /\ last.call.ret.st = "panic"

\* C5 as stated: a fetch aborts the caller when the transport fails, the body
\* cannot be read, the body is not JSON, or the body does not match the record
\* schema (a required field missing or a value of the wrong type, anywhere)
C5_AsStated ==
  (Fetched /\ (\/ NoDocument
               \/ AnsweredOneOf(Mismatched(last.on) \cup MismatchedElement(last.on)))) =>
    last.call.ret.st = "panic"

\* C6: a fetch that receives a response with a status outside 200..299 aborts
\* and returns no record, whatever the body
C6_NonSuccessFatal ==
  (Fetched /\ last.net.transport /\ last.net.status \notin 200..299) =>
    last.call.ret.st = "panic"

\* C7: X::get(id) and Api::get_x(id) request the same URL and, given the same
\* response, end the same way: equal records or a panic in both
C7_EntryPointsEquivalent ==
  /\ last.entry = "standalone" =>
       last.call = FacadeGet(Api_new, last.on, last.arg, last.net)
  /\ last.entry = "facade" =>
       last.call = StandaloneGet(last.on, last.arg, last.net)

\* Album::get has returned a record for a response with status 404
C7_Witness ==
  /\ last.entry = "standalone"
  /\ last.on = "album"
  /\ last.net.status = 404
  /\ last.call.ret.st = "ok"
  /\ last.call.ret.v.id = last.arg

\* C8: the number of GET requests issued equals the number of fetches made:
\* Api::new issues none, every fetch issues exactly one whether it returns or
\* panics, and so does a fetch that repeats the one before it
C8_OneRequestPerFetch ==
  /\ requests = calls
  /\ last.entry # "none" => Len(last.call.sent) = 1

\* the facade has fetched the same id twice
C8_Witness ==
  /\ api.made
  /\ last.entry = "facade"
  /\ last.again
  /\ calls = 2
  /\ requests = 2

\* the root of the Deezer API and the path segment of each resource
BaseRoot == "https://api.deezer.com"

Segment(res) ==
  CASE res = "track" -> "track"
    [] res = "artist" -> "artist"
    [] res = "album" -> "album"
    [] res = "genre" -> "genre"
    [] res = "comment" -> "comment"
    [] res = "user" -> "user"
    [] res = "playlist" -> "playlist"
    [] res = "editorial" -> "editorial"
    [] res = "radio" -> "radio"
    [] res = "chart" -> "chart"
    [] res = "info" -> "infos"
    [] res = "options" -> "options"

\* the ids of Ids in decimal
Decimal(id) ==
  CASE id = Id27 -> "27"
    [] id = Id4179157801 -> "4179157801"
    [] id = <<0, 0>> -> "0"
    [] id = <<0, 1>> -> "65536"
    [] id = <<65535, 65535>> -> "4294967295"

\* C9: the URL requested is the base root, "/", the path segment of the
\* resource and, for a resource that takes an id, "/" and the id in decimal;
\* the same for both entry points
C9_Url ==
  Fetched =>
    last.call.sent = << BaseRoot \o "/" \o Segment(last.on)
                        \o (IF last.on \in IdResources THEN "/" \o Decimal(last.arg) ELSE "") >>

\* Album::get(4179157801) has requested its URL
C9_Witness ==
  /\ last.entry = "standalone"
  /\ last.on = "album"
  /\ last.arg = Id4179157801
  /\ last.call.sent = <<"https://api.deezer.com/album/4179157801">>

\* the resource a shortened record refers to
FullResource(T) ==
  CASE T \in {"album::ContributorArtist", "album::AlbumArtist", "album::AlbumTrackArtist",
              "chart::ChartTrackArtist", "chart::ChartAlbumArtist", "chart::ChartArtist",
              "playlist::PlaylistTrackArtist", "track::ContributorArtist",
              "track::TrackArtist"} -> "artist"
    [] T \in {"chart::ChartTrackAlbum", "chart::ChartAlbum", "playlist::PlaylistTrackAlbum",
              "track::TrackAlbum"} -> "album"
    [] T \in {"album::AlbumTrack", "chart::ChartTrack", "playlist::PlaylistTrack"} -> "track"
    [] T = "album::AlbumGenre" -> "genre"
    [] T \in {"chart::ChartPlaylistUser", "comment::CommentAuthor",
              "playlist::PlaylistUser"} -> "user"
    [] T = "chart::ChartPlaylist" -> "playlist"

\* C10: r.get_full() does what the standalone get of the resource r refers to
\* does with r.id: one request, the same outcome; and r is afterwards the
\* record it was in the record it was taken from
C10_GetFull ==
  /\ [](last.entry = "get_full" =>
          /\ last.call = StandaloneGet(FullResource(last.on), last.arg.id, last.net)
          /\ Len(last.call.sent) = 1)
  /\ [][(calls' # calls /\ last'.entry = "get_full") =>
          [ty |-> last'.on, rec |-> last'.arg] \in RefsIn(last.call.ty, last.call.ret.v)]_vars

\* get_full of the album of a track has returned the album
C10_Witness ==
  /\ last.entry = "get_full"
  /\ last.on = "track::TrackAlbum"
  /\ last.call.ty = "album::Album"
  /\ last.call.ret.st = "ok"
  /\ last.call.sent = <<"https://api.deezer.com/album/" \o to_string(last.arg.id)>>

WireOf(id) == IF id = Id27 THEN Wire27 ELSE Wire4179157801

\* C12: when the request for id i is answered with a well-formed document
\* whose id is i, X::get(i) and Api::get_x(i) return a record whose id is i;
\* so does every call of a sequence of calls on one Api
C12_IdEcho ==
  (/\ Fetched
   /\ last.on \in IdResources
   /\ Answered(WellFormed(RecordOf(last.on), WireOf(last.arg)))) =>
    /\ last.call.ret.st = "ok"
    /\ last.call.ret.v.id = last.arg

\* the second of two different calls on one Api has returned the record of
\* its id
C12_Witness ==
  /\ api.made
  /\ calls = 2
  /\ last.entry = "facade"
  /\ ~last.again
  /\ last.arg = Id4179157801
  /\ Answered(WellFormed(RecordOf(last.on), Wire4179157801))
  /\ last.call.ret.st = "ok"
  /\ last.call.ret.v.id = Id4179157801

(***************************************************************************)
(* Further properties of the record decoders (specification SpecRecords).  *)
(***************************************************************************)
\* the document has a member for the field, and it is not null
Present(doc, f) == \E n \in 1..Len(doc.v) : doc.v[n][1] = f.key /\ doc.v[n][2].t # "null"

\* every required field of T is present in the document
AllRequiredPresent(T, doc) ==
  \A n \in 1..Len(FieldsOf(T)) : Required(FieldsOf(T)[n]) => Present(doc, FieldsOf(T)[n])

\* C13: a record is returned only if every required field of its type was
\* present and well-typed in the document: a document that lacks a required
\* field, or has a null or a value of another type for it, decodes to no
\* record and the fetch answered with it aborts
C13_RequiredFields ==
  /\ (ret.fn = "from_str" /\ de.case \in {"lacks", "wrong"}) => ret.r.st # "ok"
  /\ (ret.fn = "get" /\ de.case \in {"lacks", "wrong"}) => ret.r.ret.st = "panic"
  /\ (ret.fn = "from_str" /\ ret.r.st = "ok") => AllRequiredPresent(de.ty, de.doc)
  /\ (ret.fn = "get" /\ ret.r.ret.st = "ok") => AllRequiredPresent(de.ty, de.doc)

\* Artist::get has aborted on an artist document without its name
C13_Witness ==
  /\ ret.fn = "get"
  /\ ret.entry = "standalone"
  /\ de.ty = "artist::Artist"
  /\ de.case = "lacks"
  /\ de.field = "name"
  /\ ret.r.ret.st = "panic"

\* the u32 the id of a well-formed document denotes
IdIn(doc) == IF value_get(doc, "id").v = Wire27 THEN Id27 ELSE Id4179157801

\* the records of the resources that take no id
Singletons == {"chart::Chart", "info::Info", "options::Options"}

\* C14: every record type but Chart, Info and Options (which have no id) and
\* CommentParent (whose id is a string) has a numeric id, present in every
\* decoded record with the value of the document's id
C14_NumericId ==
  (ret.fn = "from_str" /\ de.case = "well-formed") =>
    /\ ret.r.st = "ok"
    /\ IF de.ty \in Singletons THEN "id" \notin DOMAIN ret.r.v
       ELSE IF de.ty = "comment::CommentParent" THEN ret.r.v.id = "27"
       ELSE /\ "id" \in DOMAIN ret.r.v
            /\ NumericId(de.ty)
            /\ ret.r.v.id = IdIn(de.doc)

\* a ChartPlaylistUser, a nested reference record, has been decoded with its id
C14_Witness ==
  /\ ret.fn = "from_str"
  /\ de.ty = "chart::ChartPlaylistUser"
  /\ de.case = "well-formed"
  /\ ret.r.st = "ok"
  /\ ret.r.v.id = Id4179157801

\* C14 as stated: every record type has a numeric id, present in every decoded
\* record
C14_AsStated ==
  (ret.fn = "from_str" /\ de.case = "well-formed") =>
    /\ ret.r.st = "ok"
    /\ "id" \in DOMAIN ret.r.v
    /\ NumericId(de.ty)
    /\ ret.r.v.id = IdIn(de.doc)

\* a u32: two limbs of 16 bits
IsU32(x) == DOMAIN x = 1..2 /\ \A i \in 1..2 : x[i] \in 0..65535

\* the ids of the records of a list
IdsIn(list) == [i \in 1..Len(list) |-> list[i].id]

\* C15: a document whose id is negative or above 2^32 - 1 decodes into no
\* record (the fetch aborts, a lenient list skips the element); an id within
\* the range is the id of the record, digit for digit; and the id given to a
\* fetch is in the URL in full
C15_IdRange ==
  /\ (ret # NoRun /\ ret.fn = "from_str" /\ de.case = "id") =>
        IF de.wire.fits THEN ret.r.st = "ok" /\ ret.r.v.id = de.wire.val
        ELSE ret.r.st = "err"
  /\ (ret # NoRun /\ ret.fn = "get" /\ de.case = "id") =>
        IF de.wire.fits THEN ret.r.ret.st = "ok" /\ ret.r.ret.v.id = de.wire.val
        ELSE ret.r.ret.st = "panic"
  /\ (ret # NoRun /\ ret.fn \in {"from_str", "get"} /\ de.case = "element") =>
        LET r == IF ret.fn = "get" THEN ret.r.ret ELSE ret.r
        IN /\ r.st = "ok"
           /\ IdsIn(r.v[de.field]) =
                IF de.wire.fits THEN <<Id27, de.wire.val>> ELSE <<Id27>>
  /\ (ret # NoRun /\ ret.fn = "from_str" /\ ret.r.st = "ok" /\ NumericId(de.ty)) =>
        IsU32(ret.r.v.id)
  /\ (ret # NoRun /\ ret.fn = "get" /\ de.ty \notin Singletons) =>
        ret.r.sent = <<BaseRoot \o "/" \o Segment(ResourceOf(de.ty)) \o "/" \o Decimal(ret.id)>>

\* Album::get(4294967295) was answered with an album whose second track has
\* the id 2^32 + 27: the URL ends in 4294967295 and the track was skipped
C15_Witness ==
  /\ ret # NoRun
  /\ ret.fn = "get"
  /\ ret.entry = "standalone"
  /\ de.ty = "album::Album"
  /\ de.case = "element"
  /\ de.field = "tracks"
  /\ de.wire.wire.digits = <<4, 2, 9, 4, 9, 6, 7, 3, 2, 3>>
  /\ ret.id = <<65535, 65535>>
  /\ ret.r.sent = <<"https://api.deezer.com/album/4294967295">>
  /\ ret.r.ret.st = "ok"
  /\ Len(ret.r.ret.v.tracks) = 1

\* the place of the field of that name in the struct
IndexOf(T, name) == CHOOSE n \in 1..Len(FieldsOf(T)) : FieldsOf(T)[n].name = name

\* what a defaulted field is when the document has no member for it
DefaultValue(f) ==
  CASE f.base = "String" -> ""
    [] f.base = "u32" -> <<0, 0>>
    [] f.base = "bool" -> FALSE

\* what the field is in the record of the well-formed document
WireValue(T, f) ==
  CASE f.base = "String" -> "s"
    [] f.base = "u32" -> U32(IndexOf(T, f.name))
    [] f.base = "bool" -> TRUE

\* C17: a document lacking any subset of the fields declared #[serde(default)]
\* decodes, each missing field to its default ("", 0, false) and each present
\* one to its wire value; the other fields are what they are in the record of
\* the whole document
C17_Defaults ==
  (ret # NoRun /\ ret.fn \in {"from_str", "get"} /\ de.case = "defaulted") =>
    LET r == IF ret.fn = "get" THEN ret.r.ret ELSE ret.r
        whole == from_str(de.ty, Json(WellFormed(de.ty, Wire27))).v
    IN /\ r.st = "ok"
       /\ DOMAIN r.v = DOMAIN whole
       /\ \A f \in Defaulted(de.ty) :
            r.v[f.name] = IF f.key \in de.missing THEN DefaultValue(f) ELSE WireValue(de.ty, f)
       /\ \A name \in DOMAIN r.v \ {f.name : f \in Defaulted(de.ty)} : r.v[name] = whole[name]

\* a User document with none of the nine fields has been fetched
C17_Witness ==
  /\ ret # NoRun
  /\ ret.fn = "get"
  /\ de.ty = "user::User"
  /\ de.case = "defaulted"
  /\ de.missing = {"lastname", "firstname", "email", "status", "birthday", "inscription_date",
                   "gender", "lang", "is_kid"}
  /\ ret.r.ret.st = "ok"
  /\ ret.r.ret.v.last_name = ""
  /\ ret.r.ret.v.status = <<0, 0>>
  /\ ret.r.ret.v.is_kid = FALSE
  /\ ret.r.ret.v.name = "s"

\* the fields of Track that are required and a string or a number: each is
\* in the record with the value of the document
Populated(v) ==
  \A n \in 1..Len(FieldsOf("track::Track")) :
    LET f == FieldsOf("track::Track")[n]
    IN (Required(f) /\ f.wrap = "" /\ f.name # "id") =>
         CASE f.base = "String" -> v[f.name] = "s"
           [] f.base = "u32" -> v[f.name] = U32(n)
           [] f.base = "f32" -> v[f.name] = [f32 |-> JNumber(FALSE, <<1>>, TRUE)]
           [] OTHER -> f.name \in DOMAIN v

\* C18: the Track document of id t with the nested artist of id a and the
\* nested album of id b decodes to the record with id t, artist.id a,
\* album.id b and every required string and number field populated; a Track
\* document without artist or without album gives no record
C18_Track ==
  /\ (ret # NoRun /\ ret.fn \in {"from_str", "get"} /\ de.case = "track") =>
        LET r == IF ret.fn = "get" THEN ret.r.ret ELSE ret.r
        IN /\ r.st = "ok"
           /\ r.v.id = de.t
           /\ r.v.artist.id = de.a
           /\ r.v.album.id = de.b
           /\ Populated(r.v)
  /\ (/\ ret # NoRun
      /\ de.ty = "track::Track"
      /\ de.case = "lacks"
      /\ de.field \in {"artist", "album"}) =>
        /\ ret.fn = "from_str" => ret.r.st = "err"
        /\ ret.fn = "get" => ret.r.ret.st = "panic"

\* the document of track 912486 with artist 4179157801 and album 7 has been
\* decoded
C18_Witness ==
  /\ ret # NoRun
  /\ ret.fn = "from_str"
  /\ de.case = "track"
  /\ ret.r.st = "ok"
  /\ ret.r.v.id = <<60518, 13>>
  /\ ret.r.v.artist.id = Id4179157801
  /\ ret.r.v.album.id = <<7, 0>>
  /\ ret.r.v.title = "s"

InFetch == thread.pc \in {"send", "await", "text", "new"}

\* the field names of struct T
FieldNames(T) == {FieldsOf(T)[n].name : n \in 1..Len(FieldsOf(T))}

\* what the last fetch did is what the fetcher does on its response as a whole
WholeCall ==
  CASE last.entry = "standalone" -> StandaloneGet(last.on, last.arg, last.net)
    [] last.entry = "facade" -> FacadeGet(Api_new, last.on, last.arg, last.net)
    [] last.entry = "get_full" -> GetFullOf(last.on, last.arg, last.net)

\* a fetch ends in one of two ways.  Returned: the response came, its body
\* was read to the end, and the record is the decoded body with every field
\* of its struct.  Aborted: a panic, and no record.  Until then nothing is
\* returned
C16_Outcome ==
  /\ thread.pc \in {"idle", "send", "await", "text", "new", "aborted"}
  /\ InFetch => (IF last.entry = "none" THEN calls = 1 ELSE last.seq = calls - 1)
  /\ (thread.pc = "idle" /\ calls > 0) =>
       /\ last.seq = calls
       /\ last.call.ret.st = "ok"
       /\ last.net.transport /\ last.net.readable
       /\ wire = <<>>
       /\ DOMAIN last.call.ret.v = FieldNames(last.call.ty)
       /\ last.call = WholeCall
  /\ thread.pc = "aborted" =>
       /\ last.seq = calls
       /\ last.call.ret.st = "panic"
       /\ "v" \notin DOMAIN last.call.ret
       /\ last.call = WholeCall

\* C16: when the blocking calls return, every fetch ends, either with a
\* fully populated record returned after the whole body was read or with a
\* panic and no record
C16_FetchEnds == []C16_Outcome /\ (InFetch ~> (thread.pc \in {"idle", "aborted"}))

\* deezer.get_playlist(27) has returned the playlist
C16_Witness ==
  /\ thread.pc = "idle"
  /\ calls = 1
  /\ last.entry = "facade"
  /\ last.on = "playlist"
  /\ last.call.ret.st = "ok"
  /\ last.call.ret.v.id = Id27

\* C20: at most one request is in flight, and it is the request of the fetch
\* the caller is blocked in; when it was sent every earlier fetch had
\* returned its record (a caller that panicked sends nothing more), get_full
\* included
C20_NoOverlap ==
  /\ Len(wire) <= 1
  /\ requests <= calls
  /\ wire # <<>> =>
       /\ thread.pc \in {"await", "text"}
       /\ wire = <<thread.url>>
       /\ requests = calls
       /\ IF calls = 1 THEN last.entry = "none"
          ELSE last.seq = calls - 1 /\ last.call.ret.st = "ok"
  /\ thread.pc \in {"idle", "aborted", "new"} => wire = <<>> /\ requests = calls
  /\ thread.pc = "send" => wire = <<>> /\ requests = calls - 1

\* the request of a get_full is in flight, after the fetch that returned the
\* record it was called on
C20_Witness ==
  /\ thread.pc = "await"
  /\ thread.entry = "get_full"
  /\ wire = <<"https://api.deezer.com/album/123">>
  /\ requests = 2
  /\ last.seq = 1
  /\ last.on = "track"

\* the elements of de that do not decode
Undecodable == SelectSeq(de.elems, LAMBDA e : e \notin Elements(de.ty).good)

\* C21: deserialize_map prints one line for each element that does not decode
\* and pushes one record for each that does, whatever the elements around it
\* are: the lines printed are as many as the undecodable elements, the
\* records as many as the decodable ones, and together as many as the array
\* has elements; the same for the genres of an album document
C21_OnePerElement ==
  /\ (ret.fn = "deserialize_map") =>
       /\ ret.r.st = "ok"
       /\ ret.r.out = Len(Undecodable)
       /\ Len(ret.r.v) = Len(Decodable)
       /\ ret.r.out + Len(ret.r.v) = Len(de.elems)
       /\ stdout = ret.r.out
  /\ (ret.fn = "new" /\ ret.ty = "album::Album") =>
       /\ ret.r.st = "ok"
       /\ ret.r.out = Len(Undecodable)
       /\ ret.r.out + Len(ret.r.v.genres) = Len(de.elems)
       /\ stdout = ret.r.out

\* deserialize_map has run on [bad, good, bad]: two lines, one record
C21_Witness ==
  /\ ret.fn = "deserialize_map"
  /\ Len(de.elems) = 3
  /\ de.elems[1] \in Elements(de.ty).bad
  /\ de.elems[2] \in Elements(de.ty).good
  /\ de.elems[3] \in Elements(de.ty).bad
  /\ de.elems[1] # de.elems[3]
  /\ ret.r.out = 2
  /\ Len(ret.r.v) = 1

\* the record of the well-formed document of the struct of de
Whole == from_str(de.ty, Json(WellFormed(de.ty, Wire27))).v

\* C22: an element that does not decode in Album.genres, Album.tracks or
\* Playlist.tracks does not fail the fetch: the record is returned, the list
\* without the element and every other field as decoded; in a list of Chart
\* (tracks, albums, artists, playlists) it aborts the fetch
C22_ListFailures ==
  (ret # NoRun /\ ret.fn \in {"from_str", "get"} /\ de.case = "list") =>
    LET r == IF ret.fn = "get" THEN ret.r.ret ELSE ret.r
    IN IF de.with = "deserialize_map"
       THEN /\ de.ty \in {"album::Album", "playlist::Playlist"}
            /\ r.st = "ok"
            /\ IdsIn(r.v[de.field]) = <<Id27, Id4179157801>>
            /\ DOMAIN r.v = DOMAIN Whole
            /\ \A name \in DOMAIN r.v \ {de.field} : r.v[name] = Whole[name]
       ELSE /\ de.ty = "chart::Chart"
            /\ r.st = "panic"
            /\ "v" \notin DOMAIN r

\* Playlist::get was answered with a playlist whose second track is null, and
\* returned the playlist with the two other tracks
C22_Witness ==
  /\ ret # NoRun
  /\ ret.fn = "get"
  /\ de.ty = "playlist::Playlist"
  /\ de.case = "list"
  /\ de.field = "tracks"
  /\ value_get(de.doc, "tracks").v.v[1][2].v[2] = JNull
  /\ ret.r.ret.st = "ok"
  /\ Len(ret.r.ret.v.tracks) = 2

\* the records of the resources other than album
OtherRecords == ResourceRecords \ {"album::Album"}

\* the value of a scalar field in the record of the document of zeros
ZeroValue(f) ==
  LET zero == IF f.base = "u32" THEN <<0, 0>> ELSE ""
  IN IF f.wrap = "Option" THEN Some(zero) ELSE zero

\* C23: for every resource but album the record a fetch returns is the
\* decode of the body, nothing changed after it: the outcome of get is that
\* of from_str of the body with its unwrap, and in the record of a document
\* of zeros and empty strings every one of them is kept
C23_NoAdjustment ==
  (ret # NoRun /\ ret.fn = "get" /\ de.ty \in OtherRecords) =>
    /\ ret.r.ret = unwrap(from_str(de.ty, Json(de.doc)))
    /\ de.case = "zeros" =>
         /\ ret.r.ret.st = "ok"
         /\ \A n \in 1..Len(FieldsOf(de.ty)) :
              Scalar(FieldsOf(de.ty)[n]) =>
                ret.r.ret.v[FieldsOf(de.ty)[n].name] = ZeroValue(FieldsOf(de.ty)[n])

\* deezer.get_playlist(27) has returned a playlist whose rating is Some(0)
C23_Witness ==
  /\ ret # NoRun
  /\ ret.fn = "get"
  /\ ret.entry = "facade"
  /\ de.ty = "playlist::Playlist"
  /\ de.case = "zeros"
  /\ ret.r.ret.st = "ok"
  /\ ret.r.ret.v.rating = Some(<<0, 0>>)
  /\ ret.r.ret.v.description = ""

RECURSIVE ChainOf(_)
\* the album and the albums of its chain of alternatives, the root first
ChainOf(album) ==
  IF album.alternative_album.some THEN <<album>> \o ChainOf(album.alternative_album.v)
  ELSE <<album>>

\* the record a fetch or a decode returned
Returned == IF ret.fn = "from_str" THEN ret.r ELSE ret.r.ret

\* C24: after a successful Album fetch the album and every album of its
\* chain of alternatives has a genre_id that is None or not -1
C24_NoSentinel ==
  (ret # NoRun /\ ret.fn = "get" /\ de.case = "chain" /\ ret.r.ret.st = "ok") =>
    \A i \in 1..Len(ChainOf(ret.r.ret.v)) : ChainOf(ret.r.ret.v)[i].genre_id # Some(-1)

\* the document has a member of this key, whatever its value
HasKey(doc, key) == \E n \in 1..Len(doc.v) : doc.v[n][1] = key

\* an album document of ChainInputs was decoded, by from_str or by a fetch
ChainDecoded ==
  /\ ret # NoRun
  /\ ret.fn \in {"from_str", "get"}
  /\ de.case = "chain"

\* the record the direct decode of the album nested in the document gives
NestedAlbum ==
  from_str("album::Album",
           Json(AlbumChain(WellFormed("album::Album", Wire27), Tail(de.genres), de.end, 1)))

\* C25: the album of a document with n nested alternatives decodes, its chain
\* of alternatives has n albums after the root, the i-th one with the id and
\* the genre_id of the i-th nested object, the alternative of the root is the
\* album the nested object decodes to, the alternative of the last one is
\* None when the document has no alternative member and when it has null for
\* it, and no two albums of the chain are equal
C25_Chain ==
  ChainDecoded =>
    /\ Returned.st = "ok"
    /\ LET chain == ChainOf(Returned.v)
       IN /\ Len(chain) = Len(de.genres)
          /\ \A i \in 1..Len(chain) :
               /\ chain[i].id = U32(27 + i - 1)
               /\ (i > 1 \/ ret.fn = "from_str") => chain[i].genre_id = Some(de.genres[i])
               /\ chain[i].alternative_album.some <=> i < Len(de.genres)
          /\ \A i, j \in 1..Len(chain) : i # j => chain[i] # chain[j]
          /\ Returned.v.alternative_album =
               (IF Len(de.genres) = 1 THEN None ELSE Some(NestedAlbum.v))
          /\ (Len(de.genres) = 1 /\ de.end = "null") =>
               HasKey(de.doc, "alternative") /\ Returned.v.alternative_album = None

\* C25, as stated: the alternative of a decoded album is None exactly when the
\* document has no alternative member
C25_AsStated ==
  (ChainDecoded /\ Returned.st = "ok") =>
    (Returned.v.alternative_album = None <=> ~HasKey(de.doc, "alternative"))

\* the document with two nested alternatives, the innermost with null for its
\* own, decoded to a chain of three albums
C25_Witness ==
  /\ ChainDecoded
  /\ ret.fn = "from_str"
  /\ de.genres = <<5, -1, 5>>
  /\ de.end = "null"
  /\ Len(ChainOf(ret.r.v)) = 3
  /\ ChainOf(ret.r.v)[3].alternative_album = None
  /\ ChainOf(ret.r.v)[3].id = U32(29)

\* the direct structural decode of the document
Direct == from_str(de.ty, Json(de.doc))

\* an album document was fetched
AlbumFetched == ret # NoRun /\ ret.fn = "get" /\ de.ty = "album::Album"

\* C28: the album a fetch returns differs from the direct decode of the
\* document in genre_id only, and only when the decoded genre_id is Some(-1),
\* which becomes None; every other field, the alternative album with its own
\* genre_id included, is the decoded one; a document in which genre_id is
\* missing or null decodes, to None
C28_OnlyGenreId ==
  AlbumFetched =>
    /\ ret.r.ret.st = (IF Direct.st = "ok" THEN "ok" ELSE "panic")
    /\ ret.r.ret.st = "ok" =>
         /\ DOMAIN ret.r.ret.v = DOMAIN Direct.v
         /\ \A f \in DOMAIN Direct.v \ {"genre_id"} : ret.r.ret.v[f] = Direct.v[f]
         /\ ret.r.ret.v.genre_id =
              (IF Direct.v.genre_id = Some(-1) THEN None ELSE Direct.v.genre_id)
         /\ ret.r.ret.out = Direct.out
    /\ de.case = "genre" =>
         /\ de.given \in {"missing", "null"} =>
              ret.r.ret.st = "ok" /\ ret.r.ret.v.genre_id = None
         /\ (de.given = "number" /\ de.genre # -1) =>
              ret.r.ret.st = "ok" /\ ret.r.ret.v.genre_id = Some(de.genre)
         /\ (de.given = "number" /\ de.genre = -1) =>
              ret.r.ret.st = "ok" /\ ret.r.ret.v.genre_id = None
    /\ (de.case = "chain" /\ Len(de.genres) > 1) =>
         ret.r.ret.v.alternative_album.v.genre_id = Some(de.genres[2])

\* the fetched album had -1 for its genre_id and for that of its alternative:
\* the first is None, the second is kept
C28_Witness ==
  /\ AlbumFetched
  /\ de.case = "chain"
  /\ de.genres = <<-1, -1>>
  /\ ret.r.ret.st = "ok"
  /\ ret.r.ret.v.genre_id = None
  /\ ret.r.ret.v.alternative_album.v.genre_id = Some(-1)
  /\ ret.r.ret.v.alternative_album = Direct.v.alternative_album

\* an info document of OfferInputs was decoded, by from_str or by a fetch
OffersDecoded ==
  /\ ret # NoRun
  /\ ret.fn \in {"from_str", "get"}
  /\ de.case = "offers"

\* the offers of the document are in a {"data": [...]} envelope
Enveloped == "key" \in DOMAIN de

\* the element decodes as Offer
OfferDecodes(e) == from_str("info::Offer", Json(e)).st = "ok"

\* C26: the offers of an Info are decoded from a bare array: when every
\* element decodes as an Offer, the record has one offer per element, in the
\* order of the array; when an element does not decode, or the offers are in
\* a {"data": [...]} envelope, the decode panics and returns no record
C26_StrictOffers ==
  OffersDecoded =>
    IF ~Enveloped /\ \A i \in 1..Len(de.elems) : OfferDecodes(de.elems[i])
    THEN /\ Returned.st = "ok"
         /\ Len(Returned.v.offers) = Len(de.elems)
         /\ \A i \in 1..Len(de.elems) :
              Returned.v.offers[i] = from_str("info::Offer", Json(de.elems[i])).v
         /\ IdsIn(Returned.v.offers) = [i \in 1..Len(de.elems) |-> IdIn(de.elems[i])]
    ELSE /\ Returned.st = "panic"
         /\ "v" \notin DOMAIN Returned

\* an array of three offers of which the last does not decode: no record,
\* not the two offers that decode
C26_Witness ==
  /\ OffersDecoded
  /\ ~Enveloped
  /\ Len(de.elems) = 3
  /\ OfferDecodes(de.elems[1]) /\ OfferDecodes(de.elems[2]) /\ ~OfferDecodes(de.elems[3])
  /\ Returned.st = "panic"

\* the key of the document that the field of this name is read from
KeyOf(T, name) == FieldsOf(T)[IndexOf(T, name)].key

\* a document of EnvelopeInputs was decoded, by from_str or by a fetch
EnvelopeDecoded ==
  /\ ret # NoRun
  /\ ret.fn \in {"from_str", "get"}
  /\ de.case = "envelope"

\* C27: a document in which the value of a list decoded by deserialize_map or
\* by deserialize_chart has no "data" member, or has one that is not an
\* array, decodes to a panic: not to a record with an empty list or without
\* the list, and not to an Err
C27_EnvelopeFatal ==
  EnvelopeDecoded =>
    /\ de.with \in {"deserialize_map", "deserialize_chart"}
    /\ value_get(de.doc, KeyOf(de.ty, de.field)).some
    /\ ~(/\ value_get(value_get(de.doc, KeyOf(de.ty, de.field)).v, "data").some
         /\ value_get(value_get(de.doc, KeyOf(de.ty, de.field)).v, "data").v.t = "arr")
    /\ Returned.st = "panic"
    /\ "v" \notin DOMAIN Returned
    /\ Returned.out = 0

\* the playlist whose tracks are {"data": null} was fetched through the
\* facade: a panic
C27_Witness ==
  /\ EnvelopeDecoded
  /\ ret.fn = "get"
  /\ ret.entry = "facade"
  /\ de.ty = "playlist::Playlist"
  /\ de.field = "tracks"
  /\ de.with = "deserialize_map"
  /\ de.shape = "data null"
  /\ ret.r.ret.st = "panic"
  /\ Len(ret.r.sent) = 1

\* Editorial::all() was called
AllCalled == ret # NoRun /\ ret.fn = "all"

\* C30: Editorial::all() panics in whatever state it is called: it returns
\* no sequence and issues no request (the requests issued are still those of
\* the fetches made before it), and nothing runs after it; every call of the
\* facade is a fetch of one resource and issues one request
C30_AllAborts ==
  /\ AllCalled =>
       /\ ret.r.ret.st = "panic"
       /\ "v" \notin DOMAIN ret.r.ret
       /\ ret.r.sent = <<>>
       /\ requests = calls
       /\ ~Running
  /\ last.entry = "facade" =>
       /\ last.on \in Resources
       /\ Len(last.call.sent) = 1

\* Editorial::all() was called after the facade had fetched a record: the one
\* request of that fetch is the only one issued
C30_Witness ==
  /\ AllCalled
  /\ api.made
  /\ last.entry = "facade"
  /\ last.call.ret.st = "ok"
  /\ calls = 1
  /\ requests = 1
  /\ ret.r.ret.st = "panic"

\* what Api::get_x does as a whole on the answer to the request of thread t
OwnCall(t) == FacadeGet(api, thread[t].res, thread[t].arg, wire[t].answer)

====
